---- MODULE Spec2Model ----
(***************************************************************************)
(* ver-stub: the section buffer codec (ver-stub/src/lib.rs decode,         *)
(* ver-stub-build/src/lib.rs encode) and the section patcher               *)
(* (ver-stub-build/src/update_section.rs).                                 *)
(*                                                                         *)
(* Byte strings are sequences of 0..255 (1-indexed, as Rust's &[u8] of a   *)
(* String); buffers are functions 0..n-1 -> 0..255 (0-indexed, as Rust's   *)
(* [u8; N] and Vec<u8>).                                                   *)
(***************************************************************************)
EXTENDS Integers, Sequences, FiniteSets, TLC

VARIABLES
    pc,            \* position of the running scenario
    writer_count,  \* Member::COUNT of the ver-stub version the encoder was built with
    member_data,   \* [Option<String>; COUNT] handed to build_section_buffer
    buffer_size,   \* the buffer_size argument of build_section_buffer
    built,         \* what build_section_buffer returned (or that it panicked)
    buffer,        \* the reader's &[u8; BUFFER_SIZE]: the bytes of the link section
    members,       \* get_idx_from_buffer's result for each index asked
    pokes,         \* number of bytes of the section rewritten behind the reader's back
    op             \* the patch operation (UpdateSectionCommand::write_to) and its world

vars == <<pc, writer_count, member_data, buffer_size, built, buffer, members, pokes, op>>

(***************************************************************************)
(* Bounds of the model.                                                    *)
(***************************************************************************)
\* The VER_STUB_BUFFER_SIZE setting the reader crate is compiled with.
EnvBufferSize == 40
\* At most this many members of one member array are Some.
MaxPresent == 3
\* get_idx_from_buffer is asked for every index 0..MaxIdx.
MaxIdx == 21
\* At most this many section bytes are rewritten by hand.
MaxPokes == 1
\* The longest payload piped to the editing tool, and the bytes a pipe holds.
MaxPayload == 4
PipeCapacity == 2

(***************************************************************************)
(* Option<T>, and the results of the two codec functions.                  *)
(***************************************************************************)
None == [tag |-> "None"]
Some(v) == [tag |-> "Some", val |-> v]

Zeroes(n) == [j \in 0..(n - 1) |-> 0]
Filled(n, b) == [j \in 0..(n - 1) |-> b]

(***************************************************************************)
(* ver-stub/src/lib.rs                                                     *)
(***************************************************************************)
\* option_env!("VER_STUB_BUFFER_SIZE"): Some(decimal text) here.
VER_STUB_BUFFER_SIZE == Some(EnvBufferSize)

DEFAULT_BUFFER_SIZE == 512

\* u16::from_str_radix(s, 10) accepts 0..65535; anything else fails the build.
BUFFER_SIZE ==
    IF VER_STUB_BUFFER_SIZE.tag = "Some"
    THEN IF VER_STUB_BUFFER_SIZE.val \in 0..65535 THEN VER_STUB_BUFFER_SIZE.val ELSE -1
    ELSE DEFAULT_BUFFER_SIZE

header_size(num_members) == 1 + num_members * 2

COUNT == 9

\* The two `const _: () = assert!(...)`: a build that violates them does not exist.
ConstAsserts == header_size(COUNT) <= 32 /\ BUFFER_SIZE > 32

\* The three ways get_idx_from_buffer ends. reads: the offsets read through
\* read_buffer_byte; [start, end): the absolute range of the returned slice.
Absent(reads) ==
    [tag |-> "None", val |-> <<>>, start |-> 0, end |-> 0, msg |-> "", reads |-> reads]
Str(bytes, start, end, reads) ==
    [tag |-> "Some", val |-> bytes, start |-> start, end |-> end, msg |-> "", reads |-> reads]
Panicked(msg, start, end, reads) ==
    [tag |-> "Panic", val |-> <<>>, start |-> start, end |-> end, msg |-> msg, reads |-> reads]

\* static BUFFER: [u8; BUFFER_SIZE] = [0u8; BUFFER_SIZE], as the compiler sees it
INITIALIZER == Zeroes(BUFFER_SIZE)

\* Mutant of read_buffer_byte: a plain read, which the compiler answers from
\* the initializer of the static.
read_buffer_byte_folded(buf, offset) ==
    IF offset < BUFFER_SIZE
    THEN [ok |-> TRUE, val |-> INITIALIZER[offset], reads |-> {}]
    ELSE [ok |-> FALSE, val |-> 0, reads |-> {}]

\* Mutant of read_buffer_byte: no assertion before the read.
read_buffer_byte_unchecked(buf, offset) ==
    [ok |-> TRUE, val |-> IF offset < BUFFER_SIZE THEN buf[offset] ELSE 0,
     reads |-> {offset}]

\* assert!(offset < BUFFER_SIZE); read_volatile(buffer + offset)
read_buffer_byte(buf, offset) ==
    IF offset < BUFFER_SIZE
    THEN [ok |-> TRUE, val |-> buf[offset], reads |-> {offset}]
    ELSE [ok |-> FALSE, val |-> 0, reads |-> {}]

\* Mutant of read_buffer_u16: the high byte is read and dropped.
read_buffer_u16_low_byte(buf, offset) ==
    LET lo == read_buffer_byte(buf, offset)
        hi == read_buffer_byte(buf, offset + 1)
    IN  IF ~lo.ok THEN [ok |-> FALSE, val |-> 0, reads |-> {}]
        ELSE IF ~hi.ok THEN [ok |-> FALSE, val |-> 0, reads |-> lo.reads]
        ELSE [ok |-> TRUE, val |-> lo.val, reads |-> lo.reads \cup hi.reads]

\* lo | (hi << 8) on u16
read_buffer_u16(buf, offset) ==
    LET lo == read_buffer_byte(buf, offset)
        hi == read_buffer_byte(buf, offset + 1)
    IN  IF ~lo.ok THEN [ok |-> FALSE, val |-> 0, reads |-> {}]
        ELSE IF ~hi.ok THEN [ok |-> FALSE, val |-> 0, reads |-> lo.reads]
        ELSE [ok |-> TRUE, val |-> (lo.val + ((hi.val * 256) % 65536)) % 65536,
              reads |-> lo.reads \cup hi.reads]

\* core::str::from_utf8: the well-formed byte sequences of UTF-8
\* (no overlong forms, no surrogates, nothing above U+10FFFF).
RECURSIVE run_utf8_validation(_, _)
run_utf8_validation(v, i) ==
    IF i > Len(v) THEN TRUE
    ELSE
      LET b == v[i]
          in(j, lo, hi) == j <= Len(v) /\ v[j] >= lo /\ v[j] <= hi
          cont(j) == in(j, 128, 191)
      IN  IF b < 128 THEN run_utf8_validation(v, i + 1)
          ELSE IF b >= 194 /\ b <= 223
            THEN cont(i + 1) /\ run_utf8_validation(v, i + 2)
          ELSE IF b = 224
            THEN in(i + 1, 160, 191) /\ cont(i + 2) /\ run_utf8_validation(v, i + 3)
          ELSE IF (b >= 225 /\ b <= 236) \/ b = 238 \/ b = 239
            THEN cont(i + 1) /\ cont(i + 2) /\ run_utf8_validation(v, i + 3)
          ELSE IF b = 237
            THEN in(i + 1, 128, 159) /\ cont(i + 2) /\ run_utf8_validation(v, i + 3)
          ELSE IF b = 240
            THEN in(i + 1, 144, 191) /\ cont(i + 2) /\ cont(i + 3)
                 /\ run_utf8_validation(v, i + 4)
          ELSE IF b >= 241 /\ b <= 243
            THEN cont(i + 1) /\ cont(i + 2) /\ cont(i + 3)
                 /\ run_utf8_validation(v, i + 4)
          ELSE IF b = 244
            THEN in(i + 1, 128, 143) /\ cont(i + 2) /\ cont(i + 3)
                 /\ run_utf8_validation(v, i + 4)
          ELSE FALSE

from_utf8(bytes) == run_utf8_validation(bytes, 1)

\* &buffer[start..end] as a byte string
Slice(buf, start, end) == [j \in 1..(end - start) |-> buf[start + j - 1]]

\* Mutant of member_in_section: `>` for `>=`, and no test for a zero count.
member_in_section_off_by_one(idx, actual_num_members) == ~(idx > actual_num_members)

\* Mutant of member_in_section: the reader trusts its own compiled COUNT.
member_in_section_by_count(idx, actual_num_members) == idx < COUNT

\* Lines 148-156: neither early `return None` is taken.
member_in_section(idx, actual_num_members) ==
    ~(actual_num_members = 0) /\ ~(idx >= actual_num_members)

\* Mutant of section_header_size: the header size of the reader's own COUNT.
section_header_size_of_reader(actual_num_members) == header_size(COUNT)

\* Line 159: the header size comes from the count stored in the section.
section_header_size(actual_num_members) == header_size(actual_num_members)

\* Lines 178-190: the panic message of the range validation, "" when it passes.
range_panic(start, end) ==
    IF end < start THEN "invalid range"
    ELSE IF end > BUFFER_SIZE THEN "exceeds buffer size"
    ELSE ""

\* Mutant of slice_to_str: the bytes are returned unchecked.
slice_to_str_unchecked(buf, start, end, reads) ==
    IF start > end \/ end > BUFFER_SIZE
    THEN Panicked("slice index out of range", start, end, reads)
    ELSE Str(Slice(buf, start, end), start, end, reads)

\* Lines 192-199: &buffer[start..end] (bounds-checked by the language), and
\* from_utf8 on it.
slice_to_str(buf, start, end, reads) ==
    IF start > end \/ end > BUFFER_SIZE
    THEN Panicked("slice index out of range", start, end, reads)
    ELSE
      LET bytes == Slice(buf, start, end)
      IN  IF from_utf8(bytes) THEN Str(bytes, start, end, reads)
          ELSE Panicked("invalid UTF-8", start, end, reads)

\* Mutant of member_absent: an inverted range is taken for an absent member.
member_absent_or_inverted(start, end) == start >= end

\* Lines 173-176: `if start == end { return None; }`
member_absent(start, end) == start = end

\* Member::get_idx_from_buffer
get_idx_from_buffer(idx, buf) ==
    LET n == read_buffer_byte(buf, 0)
    IN
    IF ~n.ok THEN Panicked("out of bounds", 0, 0, n.reads)
    ELSE
    LET actual_num_members == n.val IN
    IF ~member_in_section(idx, actual_num_members) THEN Absent(n.reads)
    ELSE
    LET actual_header_size == section_header_size(actual_num_members)
        end_offset_pos == 1 + idx * 2
        e == read_buffer_u16(buf, end_offset_pos)
    IN
    IF ~e.ok THEN Panicked("out of bounds", 0, 0, n.reads \cup e.reads)
    ELSE
    LET end == actual_header_size + e.val
        prev_end_pos == 1 + (idx - 1) * 2
        p == IF idx = 0 THEN [ok |-> TRUE, val |-> 0, reads |-> {}]
             ELSE read_buffer_u16(buf, prev_end_pos)
        reads == (n.reads \cup e.reads) \cup p.reads
    IN
    IF ~p.ok THEN Panicked("out of bounds", 0, 0, reads)
    ELSE
    LET start == actual_header_size + p.val IN
    IF member_absent(start, end) THEN Absent(reads)
    ELSE IF range_panic(start, end) # "" THEN Panicked(range_panic(start, end), start, end, reads)
    ELSE slice_to_str(buf, start, end, reads)

(***************************************************************************)
(* ver-stub-build/src/lib.rs: the encoder                                  *)
(***************************************************************************)
Built(buf) == [tag |-> "Ok", buf |-> buf, msg |-> ""]
BuildPanicked(msg) == [tag |-> "Panic", buf |-> <<>>, msg |-> msg]
NotBuilt == [tag |-> "NotRun", buf |-> <<>>, msg |-> ""]

\* (x as u16).to_le_bytes()
to_le_bytes(x) == LET v == x % 65536 IN <<v % 256, v \div 256>>

\* Mutant of store_payload: what does not fit is cut off instead of refused.
store_payload_truncating(buf, size, absolute_start, bytes) ==
    LET absolute_end == absolute_start + Len(bytes)
    IN  [ok |-> TRUE,
         buf |-> [j \in DOMAIN buf |->
                    IF j >= absolute_start /\ j < absolute_end
                    THEN bytes[j - absolute_start + 1] ELSE buf[j]],
         len |-> Len(bytes)]

\* Mutant of store_payload: a present empty string is stored as one 0 byte.
store_payload_marking_empty(buf, size, absolute_start, bytes) ==
    LET stored == IF bytes = <<>> THEN <<0>> ELSE bytes
        absolute_end == absolute_start + Len(stored)
    IN  IF absolute_end > size
        THEN [ok |-> FALSE, buf |-> buf, len |-> 0]
        ELSE [ok |-> TRUE,
              buf |-> [j \in DOMAIN buf |->
                         IF j >= absolute_start /\ j < absolute_end
                         THEN stored[j - absolute_start + 1] ELSE buf[j]],
              len |-> Len(stored)]

\* Lines 497-512: the capacity check and the copy of one present member.
store_payload(buf, size, absolute_start, bytes) ==
    LET absolute_end == absolute_start + Len(bytes)
    IN  IF absolute_end > size
        THEN [ok |-> FALSE, buf |-> buf, len |-> 0]
        ELSE [ok |-> TRUE,
              buf |-> [j \in DOMAIN buf |->
                         IF j >= absolute_start /\ j < absolute_end
                         THEN bytes[j - absolute_start + 1] ELSE buf[j]],
              len |-> Len(bytes)]

\* Mutant of end_offset_bytes: the absolute end is stored, not the relative one.
end_offset_bytes_absolute(count, relative_offset) ==
    to_le_bytes(header_size(count) + relative_offset)

\* Line 520: the two header bytes of one member.
end_offset_bytes(count, relative_offset) == to_le_bytes(relative_offset)

\* Lines 495-521: the loop over member_data, from member idx on.
RECURSIVE write_members(_, _, _, _, _, _)
write_members(count, data, size, idx, buf, relative_offset) ==
    IF idx = count THEN Built(buf)
    ELSE
      LET d == data[idx]
          header_sz == header_size(count)
          stored == IF d.tag = "Some"
                    THEN store_payload(buf, size, header_sz + relative_offset, d.val)
                    ELSE [ok |-> TRUE, buf |-> buf, len |-> 0]
          new_offset == relative_offset + stored.len
          header_offset == 1 + idx * 2
          le == end_offset_bytes(count, new_offset)
      IN  IF ~stored.ok THEN BuildPanicked("section data too large")
          ELSE IF header_offset + 2 > size
            THEN BuildPanicked("range end index out of range")
          ELSE write_members(count, data, size, idx + 1,
                 [stored.buf EXCEPT ![header_offset] = le[1], ![header_offset + 1] = le[2]],
                 new_offset)

\* build_section_buffer, of an encoder built against a ver-stub whose
\* Member::COUNT is `count` (COUNT for this version).
build_section_buffer(count, data, size) ==
    IF size = 0 THEN BuildPanicked("index out of bounds")
    ELSE write_members(count, data, size, 0,
                       [Zeroes(size) EXCEPT ![0] = count % 256], 0)

(***************************************************************************)
(* The inputs of the codec scenarios.                                      *)
(***************************************************************************)
ASDF == <<97, 115, 100, 102>>
\* With two ASDF, exactly what a COUNT-member section of BUFFER_SIZE bytes holds.
LONG == [j \in 1..(BUFFER_SIZE - header_size(COUNT) - 8) |-> 120]
Strings == {<<>>, ASDF, LONG}

\* The member arrays of `count` members with at most MaxPresent present.
MemberArrays(count) ==
    UNION { { [i \in 0..(count - 1) |-> IF i \in P THEN Some(f[i]) ELSE None]
              : f \in [P -> Strings] }
            : P \in {Q \in SUBSET (0..(count - 1)) : Cardinality(Q) <= MaxPresent} }

\* <<Member::COUNT of the encoder, buffer_size>>: this version's encoder at
\* several sizes, and an older and a newer encoder at the reader's size.
Configs ==
    { <<COUNT, s>> : s \in {0, header_size(COUNT) - 1, header_size(COUNT),
                            header_size(COUNT) + 4, BUFFER_SIZE, BUFFER_SIZE + 1} }
    \cup { <<k, BUFFER_SIZE>> : k \in {2, COUNT + 1} }

\* A buffer_size past what a u16 offset can express (with_buffer_size takes
\* any usize), and strings that fill it: one of 65535 bytes, one of 65536.
WIDE_SIZE == 65536 + header_size(COUNT) + Len(ASDF)
WideStrings == { [j \in 1..n |-> 120] : n \in {65535, 65536} }
WideArrays ==
    { [i \in 0..(COUNT - 1) |-> IF i = 0 THEN Some(wide) ELSE IF i = 1 THEN next ELSE None] :
        wide \in WideStrings, next \in {None, Some(ASDF)} }

Indices == 0..MaxIdx

NoOp == [pc |-> "none"]

(***************************************************************************)
(* Encode, load, read back (the shape of test_build_section_buffer).       *)
(***************************************************************************)
Init ==
    /\ ConstAsserts
    /\ pc = "start"
    /\ \/ \E c \in Configs :
            /\ writer_count = c[1]
            /\ buffer_size = c[2]
            /\ member_data \in MemberArrays(c[1])
       \/ /\ writer_count = COUNT
          /\ buffer_size = WIDE_SIZE
          /\ member_data \in WideArrays
    /\ built = NotBuilt
    /\ buffer = Zeroes(BUFFER_SIZE)
    /\ members = <<>>
    /\ pokes = 0
    /\ op = NoOp

\* build_section_buffer(&args, buffer_size)
BuildSectionBuffer ==
    /\ pc = "start"
    /\ built' = build_section_buffer(writer_count, member_data, buffer_size)
    /\ pc' = IF built'.tag = "Ok" THEN "built" ELSE "build_panicked"
    /\ UNCHANGED <<writer_count, member_data, buffer_size, buffer, members, pokes, op>>

\* (&buf_vec[..]).try_into().unwrap(): a [u8; BUFFER_SIZE] only if the length matches.
TryInto ==
    /\ pc = "built"
    /\ IF Cardinality(DOMAIN built.buf) = BUFFER_SIZE
       THEN buffer' = built.buf /\ pc' = "loaded"
       ELSE buffer' = buffer /\ pc' = "try_into_panicked"
    /\ UNCHANGED <<writer_count, member_data, buffer_size, built, members, pokes, op>>

\* Member::get_idx_from_buffer(idx, &buffer) for every idx of Indices.
GetAll ==
    /\ pc = "loaded"
    /\ members' = [i \in Indices |-> get_idx_from_buffer(i, buffer)]
    /\ pc' = "read"
    /\ UNCHANGED <<writer_count, member_data, buffer_size, built, buffer, pokes, op>>

Next == BuildSectionBuffer \/ TryInto \/ GetAll

Spec == Init /\ [][Next]_vars

(***************************************************************************)
(* Reading a section whose bytes were not written by this encoder: the     *)
(* buffers of the reader's unit tests, with up to MaxPokes bytes rewritten.*)
(***************************************************************************)
\* buffer[0..Len(prefix)].copy_from_slice(prefix) on [0u8; BUFFER_SIZE]
WithPrefix(prefix) ==
    [j \in 0..(BUFFER_SIZE - 1) |-> IF j < Len(prefix) THEN prefix[j + 1] ELSE 0]

TestBuffers ==
    { Zeroes(BUFFER_SIZE),                                      \* test_zeroes
      Filled(BUFFER_SIZE, 255),                                 \* test_ones
      Filled(BUFFER_SIZE, 127),                                 \* test_127s
      WithPrefix(<<1, 4, 0>> \o ASDF),                          \* test_one_element
      WithPrefix(<<3, 4, 0, 4, 0, 4, 0>> \o ASDF),              \* test_one_element
      WithPrefix(<<2, 4, 0, 0, 0>> \o ASDF),                    \* test_invalid_range
      WithPrefix(<<3, 4, 0, 4, 0, 10, 0>> \o ASDF \o <<109, 97, 115, 116, 101, 114>>),
                                                                \* test_two_elements
      WithPrefix(<<1, 2, 0, 255, 255>>) }                       \* test_invalid_utf8

\* NUL, a small offset, a continuation byte, a two-byte lead, an invalid byte.
PokeValues == {0, 2, 128, 195, 255}

DecodeInit ==
    /\ ConstAsserts
    /\ pc = "loaded"
    /\ writer_count = 0
    /\ member_data = <<>>
    /\ buffer_size = BUFFER_SIZE
    /\ built = NotBuilt
    /\ buffer \in TestBuffers
    /\ members = <<>>
    /\ pokes = 0
    /\ op = NoOp

\* One byte of the section is rewritten (the section is patched after linking,
\* by whatever tool writes it).
Poke ==
    /\ pc = "loaded"
    /\ pokes < MaxPokes
    /\ \E pos \in 0..(BUFFER_SIZE - 1), v \in PokeValues :
         buffer' = [buffer EXCEPT ![pos] = v]
    /\ pokes' = pokes + 1
    /\ UNCHANGED <<pc, writer_count, member_data, buffer_size, built, members, op>>

DecodeNext == Poke \/ GetAll

DecodeSpec == DecodeInit /\ [][DecodeNext]_vars

(***************************************************************************)
(* ver-stub-build/src/update_section.rs: UpdateSectionCommand::write_to,   *)
(* with what it calls in ver-stub-build/src/lib.rs.                        *)
(*                                                                         *)
(* Text is a sequence of one-character strings; a path is a sequence of    *)
(* components, each a text.                                                *)
(***************************************************************************)
\* std::env::consts::EXE_SUFFIX on Unix and on Windows
ExeSuffixes == { <<>>, <<".", "e", "x", "e">> }
DOT_BIN == <<".", "b", "i", "n">>
DOT_DOT == <<".", ".">>
OUTPUT == <<"o", "u", "t", "p", "u", "t">>

\* str::strip_suffix
strip_suffix(s, suffix) ==
    IF Len(s) >= Len(suffix) /\ SubSeq(s, Len(s) - Len(suffix) + 1, Len(s)) = suffix
    THEN Some(SubSeq(s, 1, Len(s) - Len(suffix)))
    ELSE None

\* Option::unwrap_or
unwrap_or(o, default) == IF o.tag = "Some" THEN o.val ELSE default

\* Path::file_name: the last component, unless there is none or it is `..`
file_name(path) ==
    IF path = <<>> \/ path[Len(path)] = DOT_DOT THEN None ELSE Some(path[Len(path)])

\* Path::join with a relative file name
join(path, name) == Append(path, name)

\* Mutant of default_name: the executable suffix is not stripped.
default_name_keeping_suffix(bin_path, exe_suffix) ==
    unwrap_or(file_name(bin_path), OUTPUT) \o DOT_BIN \o exe_suffix

\* Lines 59-70: `{original_name minus EXE_SUFFIX}.bin{EXE_SUFFIX}`
default_name(bin_path, exe_suffix) ==
    LET original_name == unwrap_or(file_name(bin_path), OUTPUT)
        base_name == unwrap_or(strip_suffix(original_name, exe_suffix), original_name)
    IN  base_name \o DOT_BIN \o exe_suffix

\* Lines 55-83: the output path, or None where write_to panics.
resolve_output_path(path, is_dir, bin_path, new_name, exe_suffix) ==
    IF is_dir
    THEN Some(join(path, unwrap_or(new_name, default_name(bin_path, exe_suffix))))
    ELSE IF new_name.tag = "Some" THEN None
    ELSE Some(path)

\* str::parse::<usize>() of a short text: an optional `+`, then decimal digits.
DigitValue(c) ==
    CASE c = "0" -> 0 [] c = "1" -> 1 [] c = "2" -> 2 [] c = "3" -> 3 [] c = "4" -> 4
      [] c = "5" -> 5 [] c = "6" -> 6 [] c = "7" -> 7 [] c = "8" -> 8 [] c = "9" -> 9
      [] OTHER -> -1

RECURSIVE DecimalValue(_, _)
DecimalValue(s, acc) ==
    IF s = <<>> THEN acc ELSE DecimalValue(Tail(s), acc * 10 + DigitValue(Head(s)))

parse_usize(s) ==
    LET digits == IF s # <<>> /\ Head(s) = "+" THEN Tail(s) ELSE s
    IN  IF digits = <<>> \/ \E j \in 1..Len(digits) : DigitValue(digits[j]) < 0
        THEN None
        ELSE Some(DecimalValue(digits, 0))

\* Mutant of with_buffer_size: a size already set is kept.
with_buffer_size_keeping(link_section, size) ==
    IF link_section.buffer_size.tag = "Some" THEN link_section
    ELSE [link_section EXCEPT !.buffer_size = Some(size)]

\* LinkSection::with_buffer_size
with_buffer_size(link_section, size) ==
    [link_section EXCEPT !.buffer_size = Some(size)]

\* LinkSection::effective_buffer_size; env_var is std::env::var("VER_STUB_BUFFER_SIZE").ok()
effective_buffer_size(link_section, env_var) ==
    IF link_section.buffer_size.tag = "Some" THEN link_section.buffer_size.val
    ELSE LET from_env == IF env_var.tag = "Some" THEN parse_usize(env_var.val) ELSE None
         IN  unwrap_or(from_env, BUFFER_SIZE)

\* LinkSection::build_section_bytes, given what the collectors returned:
\* check_enabled, then build_section_buffer at the effective size.
build_section_bytes(link_section, env_var, collected) ==
    IF ~link_section.any_enabled THEN BuildPanicked("no version info enabled")
    ELSE build_section_buffer(COUNT, collected, effective_buffer_size(link_section, env_var))

\* A file: what it holds. `image` names the binary it is (a copy of), `cut`
\* says it was truncated to nothing, `section` the bytes written into its section.
File(image) == [image |-> image, cut |-> FALSE, section |-> None]
Truncated(file) == [file EXCEPT !.cut = TRUE]
Patched(file, bytes) == [file EXCEPT !.section = Some(bytes)]

Write(fs, path, file) ==
    [p \in (DOMAIN fs) \cup {path} |-> IF p = path THEN file ELSE fs[p]]

\* std::fs::copy(from, to) returning Ok: `to` is opened with create + truncate
\* and filled from `from`; if both are the same file it has been emptied
\* before anything is read ("the file will likely get truncated").
fs_copy(fs, from, to) ==
    IF from = to THEN Write(fs, to, Truncated(fs[from]))
    ELSE Write(fs, to, fs[from])

\* The inputs of a patch operation.
IN_DIR == <<"i", "n">>
OUT_DIR == <<"o", "u", "t">>
APP == <<"a", "p", "p">>
BinPaths == { <<IN_DIR, APP>>, <<IN_DIR, APP \o <<".", "e", "x", "e">>>> }
\* The destination of write_to: a directory, a new file, the input itself.
Destinations(bin_path) == { <<OUT_DIR>>, <<OUT_DIR, <<"x">>>>, bin_path }
Directories == { <<IN_DIR>>, <<OUT_DIR>> }
NewNames == { None, Some(<<"y">>) }
\* VER_STUB_BUFFER_SIZE in the environment of the patching process
EnvVars == { None, Some(<<"6", "4">>), Some(<<"b", "i", "g">>) }
\* with_buffer_size before patch_into
PresetSizes == { None, Some(BUFFER_SIZE + 1) }
\* What get_section_info can report as the section's size
SectionSizes == { 0, header_size(COUNT), header_size(COUNT) + 4, BUFFER_SIZE,
                  DEFAULT_BUFFER_SIZE }
\* get_section_info has not been called.
NotAsked == [tag |-> "NotAsked"]
\* io::Result's Err
IoErr == [tag |-> "Err"]
\* io::Error::new(io::ErrorKind::InvalidData, ..)
InvalidData == [tag |-> "Err", kind |-> "InvalidData"]
SectionInfo(size, is_writable) == [size |-> size, is_writable |-> is_writable]
\* What the collectors (git, clock, with_custom) can hand to the encoder
JustCustom == [i \in 0..(COUNT - 1) |-> IF i = 8 THEN Some(ASDF) ELSE None]
CollectedArrays ==
    { [i \in 0..(COUNT - 1) |-> None],
      JustCustom,
      [JustCustom EXCEPT ![0] = Some(LONG)],
      [JustCustom EXCEPT ![0] = Some(ASDF), ![2] = Some(ASDF)] }

PatchInit ==
    /\ ConstAsserts
    /\ pc = "patch"
    /\ writer_count = COUNT
    /\ member_data = <<>>
    /\ buffer_size = BUFFER_SIZE
    /\ built = NotBuilt
    /\ buffer = <<>>
    /\ members = <<>>
    /\ pokes = 0
    /\ \E exe \in ExeSuffixes, bin \in BinPaths, new_name \in NewNames,
          env \in EnvVars, preset \in PresetSizes, enabled \in BOOLEAN :
         \E dest \in Destinations(bin) :
           op = [ pc |-> "start",
                  EXE_SUFFIX |-> exe,
                  bin_path |-> bin,
                  path |-> dest,
                  new_name |-> new_name,
                  link_section |-> [any_enabled |-> enabled, buffer_size |-> preset],
                  env_var |-> env,
                  fs |-> (bin :> File("input")),
                  output_path |-> None,
                  section_info |-> NotAsked,
                  section_bytes |-> NotBuilt,
                  warnings |-> <<>>,
                  calls |-> <<>>,
                  result |-> "running" ]

PatchFrame == UNCHANGED <<pc, writer_count, member_data, buffer_size, built, buffer,
                          members, pokes>>

\* Lines 55-83
ResolveOutputPath ==
    /\ op.pc = "start"
    /\ LET out == resolve_output_path(op.path, op.path \in Directories, op.bin_path,
                                      op.new_name, op.EXE_SUFFIX)
       IN  op' = IF out.tag = "Some"
                 THEN [op EXCEPT !.pc = "resolved", !.output_path = out]
                 ELSE [op EXCEPT !.pc = "done", !.result = "panic: with_filename with a file path"]
    /\ PatchFrame

\* Lines 85-91: LlvmTools::new()
FindLlvmTools ==
    /\ op.pc = "resolved"
    /\ \E found \in BOOLEAN :
         op' = IF found
               THEN [op EXCEPT !.pc = "tools"]
               ELSE [op EXCEPT !.pc = "done", !.result = "panic: no LLVM tools"]
    /\ PatchFrame

\* Lines 93-102: llvm.get_section_info(&self.bin_path, SECTION_NAME)
GetSectionInfo ==
    /\ op.pc = "tools"
    /\ \E r \in {IoErr, None} \cup
                { Some(SectionInfo(s, w)) : s \in SectionSizes, w \in BOOLEAN } :
         op' = IF r.tag = "Err"
               THEN [op EXCEPT !.pc = "done",
                               !.calls = Append(@, [fn |-> "get_section_info"]),
                               !.section_info = r,
                               !.result = "panic: failed to read section info"]
               ELSE [op EXCEPT !.pc = IF r.tag = "None" THEN "absent" ELSE "present",
                               !.calls = Append(@, [fn |-> "get_section_info"]),
                               !.section_info = r]
    /\ PatchFrame

\* Mutant of writable_warning: the warning is emitted for every section.
writable_warning_always(warnings, info) ==
    Append(warnings, "section is writable")

\* Lines 107-112: cargo_warning if the section is writable
writable_warning(warnings, info) ==
    IF info.is_writable THEN Append(warnings, "section is writable") ELSE warnings

\* Mutant of build_step: the operation goes on whatever the encoder did.
build_step_going_on(o, collected) ==
    LET info == o.section_info.val
        warned == writable_warning(o.warnings, info)
        bytes == build_section_bytes(with_buffer_size(o.link_section, info.size),
                                     o.env_var, collected)
    IN  [o EXCEPT !.pc = "encoded",
                  !.warnings = warned,
                  !.calls = Append(@, [fn |-> "build_section_bytes"]),
                  !.section_bytes = bytes]

\* Lines 105-118 on the operation o: the writable warning, and the section
\* bytes at info.size
build_step(o, collected) ==
    LET info == o.section_info.val
        warned == writable_warning(o.warnings, info)
        bytes == build_section_bytes(with_buffer_size(o.link_section, info.size),
                                     o.env_var, collected)
    IN  IF bytes.tag = "Ok"
        THEN [o EXCEPT !.pc = "encoded",
                       !.warnings = warned,
                       !.calls = Append(@, [fn |-> "build_section_bytes"]),
                       !.section_bytes = bytes]
        ELSE [o EXCEPT !.pc = "done",
                       !.warnings = warned,
                       !.calls = Append(@, [fn |-> "build_section_bytes"]),
                       !.section_bytes = bytes,
                       !.result = "panic: " \o bytes.msg]

\* Lines 120-136 on the operation o:
\* llvm.update_section_with_bytes(bin_path, output_path, SECTION_NAME, bytes)
update_step(o, ok) ==
    LET call == [fn |-> "update_section_with_bytes", input |-> o.bin_path,
                 output |-> o.output_path.val, bytes |-> o.section_bytes.buf]
    IN  IF ok
        THEN [o EXCEPT !.pc = "done",
                       !.calls = Append(@, call),
                       !.fs = Write(@, o.output_path.val,
                                    Patched(o.fs[o.bin_path], o.section_bytes.buf)),
                       !.result = "ok"]
        ELSE [o EXCEPT !.pc = "done",
                       !.calls = Append(@, call),
                       !.result = "panic: failed to update section"]

\* Lines 105-118
BuildSectionBytes ==
    /\ op.pc = "present"
    /\ \E collected \in CollectedArrays : op' = build_step(op, collected)
    /\ PatchFrame

\* Lines 120-136
UpdateSectionWithBytes ==
    /\ op.pc = "encoded"
    /\ \E ok \in BOOLEAN : op' = update_step(op, ok)
    /\ PatchFrame

\* Lines 138-154: the warning, and fs::copy(&self.bin_path, &output_path)
CopyBinary ==
    /\ op.pc = "absent"
    /\ \E ok \in BOOLEAN :
         LET call == [fn |-> "fs::copy", from |-> op.bin_path, to |-> op.output_path.val]
             warned == Append(op.warnings, "section not found, copying without modification")
         IN  op' = IF ok
                   THEN [op EXCEPT !.pc = "done",
                                   !.warnings = warned,
                                   !.calls = Append(@, call),
                                   !.fs = fs_copy(@, op.bin_path, op.output_path.val),
                                   !.result = "ok"]
                   ELSE [op EXCEPT !.pc = "done",
                                   !.warnings = warned,
                                   !.calls = Append(@, call),
                                   !.result = "panic: failed to copy"]
    /\ PatchFrame

PatchNext ==
    \/ ResolveOutputPath
    \/ FindLlvmTools
    \/ GetSectionInfo
    \/ BuildSectionBytes
    \/ UpdateSectionWithBytes
    \/ CopyBinary

PatchSpec == PatchInit /\ [][PatchNext]_vars

(***************************************************************************)
(* ver-stub-build/src/llvm_tools: LlvmTools::get_section_info (mod.rs) and *)
(* the parsers of llvm-readobj's report (parsing.rs).                      *)
(*                                                                         *)
(* The report is the sequence of its lines (str::lines), each a text.      *)
(***************************************************************************)
\* io::Result's Ok
Ok(v) == [tag |-> "Ok", val |-> v]

\* The strings of parsing.rs
FORMAT_COLON == <<"F", "o", "r", "m", "a", "t", ":">>
ELF == <<"e", "l", "f">>
MACH_O == <<"m", "a", "c", "h", "-", "o">>
COFF == <<"c", "o", "f", "f">>
NAME_COLON == <<"N", "a", "m", "e", ":">>
SEGMENT_COLON == <<"S", "e", "g", "m", "e", "n", "t", ":">>
SIZE_COLON == <<"S", "i", "z", "e", ":">>
RAW_DATA_SIZE_COLON == <<"R", "a", "w", "D", "a", "t", "a", "S", "i", "z", "e", ":">>
ZERO_X == <<"0", "x">>
SHF_WRITE == <<"S", "H", "F", "_", "W", "R", "I", "T", "E">>
IMAGE_SCN_MEM_WRITE == <<"I", "M", "A", "G", "E", "_", "S", "C", "N", "_", "M", "E", "M", "_", "W", "R", "I", "T", "E">>
CLOSE_BRACE == <<"}">>
SECTION_OPEN == <<"S", "e", "c", "t", "i", "o", "n", " ", "{">>
DATA_SEGMENT == <<"_", "_", "D", "A", "T", "A">>
\* ver_stub::SECTION_NAME
SECTION_NAME == <<"v", "e", "r", "_", "s", "t", "u", "b">>

\* char::is_whitespace, for the blanks a report has
is_whitespace(c) == c \in {" ", "\t"}

RECURSIVE trim_start(_)
trim_start(s) ==
    IF s # <<>> /\ is_whitespace(Head(s)) THEN trim_start(Tail(s)) ELSE s

RECURSIVE trim_end(_)
trim_end(s) ==
    IF s # <<>> /\ is_whitespace(s[Len(s)]) THEN trim_end(SubSeq(s, 1, Len(s) - 1)) ELSE s

\* str::trim
trim(s) == trim_end(trim_start(s))

\* str::starts_with
starts_with(s, prefix) == Len(s) >= Len(prefix) /\ SubSeq(s, 1, Len(prefix)) = prefix

\* str::strip_prefix
strip_prefix(s, prefix) ==
    IF starts_with(s, prefix) THEN Some(SubSeq(s, Len(prefix) + 1, Len(s))) ELSE None

\* str::contains
contains(s, pattern) ==
    \E i \in 0..(Len(s) - Len(pattern)) : SubSeq(s, i + 1, i + Len(pattern)) = pattern

\* str::find(char): the byte index of the first occurrence
find(s, c) ==
    IF \E i \in 1..Len(s) : s[i] = c
    THEN Some((CHOOSE i \in 1..Len(s) : s[i] = c /\ \A j \in 1..(i - 1) : s[j] # c) - 1)
    ELSE None

UPPERCASE == <<"A", "B", "C", "D", "E", "F", "G", "H", "I", "J", "K", "L", "M", "N", "O", "P", "Q", "R", "S", "T", "U", "V", "W", "X", "Y", "Z">>
LOWERCASE == <<"a", "b", "c", "d", "e", "f", "g", "h", "i", "j", "k", "l", "m", "n", "o", "p", "q", "r", "s", "t", "u", "v", "w", "x", "y", "z">>

\* str::to_lowercase on ASCII text
to_lowercase(s) ==
    [i \in 1..Len(s) |->
       IF \E k \in 1..Len(UPPERCASE) : UPPERCASE[k] = s[i]
       THEN LOWERCASE[CHOOSE k \in 1..Len(UPPERCASE) : UPPERCASE[k] = s[i]]
       ELSE s[i]]

\* Iterator::take
take(lines, n) == SubSeq(lines, 1, IF Len(lines) < n THEN Len(lines) ELSE n)

\* Lines 12-20 of parsing.rs: what one line says the format is, if anything.
format_of_line(line) ==
    LET format_str == strip_prefix(line, FORMAT_COLON)
    IN  IF format_str.tag = "None" THEN None
        ELSE LET lowered == to_lowercase(trim(format_str.val))
             IN  IF starts_with(lowered, ELF) THEN Some("Elf")
                 ELSE IF starts_with(lowered, MACH_O) THEN Some("MachO")
                 ELSE IF starts_with(lowered, COFF) THEN Some("Coff")
                 ELSE None

RECURSIVE first_format(_)
first_format(lines) ==
    IF lines = <<>> THEN None
    ELSE IF format_of_line(Head(lines)).tag = "Some" THEN format_of_line(Head(lines))
    ELSE first_format(Tail(lines))

\* `.take(5)` in BinaryFormat::detect
DETECT_LINES == 5

\* Mutant of detect: every line of the report is examined.
detect_whole_report(output) == first_format(output)

\* BinaryFormat::detect
detect(output) == first_format(take(output, DETECT_LINES))

\* extract_name: the value after the prefix, up to a parenthesis, trimmed
extract_name(line, prefix) ==
    LET part == strip_prefix(line, prefix)
    IN  IF part.tag = "None" THEN None
        ELSE LET idx == find(part.val, "(")
             IN  IF idx.tag = "Some" THEN Some(trim(SubSeq(part.val, 1, idx.val)))
                 ELSE Some(trim(part.val))

HexDigitValue(c) ==
    CASE c = "a" \/ c = "A" -> 10 [] c = "b" \/ c = "B" -> 11 [] c = "c" \/ c = "C" -> 12
      [] c = "d" \/ c = "D" -> 13 [] c = "e" \/ c = "E" -> 14 [] c = "f" \/ c = "F" -> 15
      [] OTHER -> DigitValue(c)

RECURSIVE HexValue(_, _)
HexValue(s, acc) ==
    IF s = <<>> THEN acc ELSE HexValue(Tail(s), acc * 16 + HexDigitValue(Head(s)))

\* usize::from_str_radix(s, 16): an optional `+`, then hexadecimal digits
from_str_radix_16(s) ==
    LET digits == IF s # <<>> /\ Head(s) = "+" THEN Tail(s) ELSE s
    IN  IF digits = <<>> \/ \E j \in 1..Len(digits) : HexDigitValue(digits[j]) < 0
        THEN None
        ELSE Some(HexValue(digits, 0))

\* Mutant of parse_size: the text is always read as decimal.
parse_size_decimal_only(size_str) ==
    LET parsed == parse_usize(trim(size_str))
    IN  IF parsed.tag = "Some" THEN Ok(parsed.val) ELSE InvalidData

\* Mutant of parse_size: text that is no number counts as 0.
parse_size_or_zero(size_str) ==
    LET trimmed == trim(size_str)
        hex == strip_prefix(trimmed, ZERO_X)
        parsed == IF hex.tag = "Some" THEN from_str_radix_16(hex.val)
                  ELSE parse_usize(trimmed)
    IN  Ok(unwrap_or(parsed, 0))

\* parse_size: decimal, or hexadecimal after `0x`
parse_size(size_str) ==
    LET trimmed == trim(size_str)
        hex == strip_prefix(trimmed, ZERO_X)
        parsed == IF hex.tag = "Some" THEN from_str_radix_16(hex.val)
                  ELSE parse_usize(trimmed)
    IN  IF parsed.tag = "Some" THEN Ok(parsed.val) ELSE InvalidData

\* What the body of a parser's loop does with a line: go on to the next line
\* with the tracking state st, or return ret.
Continue(st) == [st |-> st, ret |-> None]
Return(st, ret) == [st |-> st, ret |-> Some(ret)]

\* Lines 73-75 of parsing.rs
elf_start == [in_target_section |-> FALSE, current_size |-> None,
              current_is_writable |-> FALSE]

\* Mutant of elf_reset: the writable flag survives into the next block.
elf_reset_keeping_writable(st) ==
    [st EXCEPT !.in_target_section = FALSE, !.current_size = None]

\* Lines 110-114: reset on a new section
elf_reset(st) ==
    [st EXCEPT !.in_target_section = FALSE, !.current_size = None,
               !.current_is_writable = FALSE]

\* Mutant of elf_line: a Size line counts wherever it stands.
elf_line_size_anywhere(st, line, section_name) ==
    LET trimmed == trim(line)
        name == extract_name(trimmed, NAME_COLON)
        size_str == strip_prefix(trimmed, SIZE_COLON)
    IN  IF name.tag = "Some"
        THEN Continue([st EXCEPT !.in_target_section = (name.val = section_name)])
        ELSE IF size_str.tag = "Some"
        THEN LET size == parse_size(size_str.val)
             IN  IF size.tag = "Err" THEN Return(st, size)
                 ELSE Continue([st EXCEPT !.current_size = Some(size.val)])
        ELSE IF st.in_target_section /\ contains(trimmed, SHF_WRITE)
        THEN Continue([st EXCEPT !.current_is_writable = TRUE])
        ELSE IF trimmed = CLOSE_BRACE /\ st.in_target_section /\ st.current_size.tag = "Some"
        THEN Return(st, Ok(Some(SectionInfo(st.current_size.val, st.current_is_writable))))
        ELSE IF trimmed = SECTION_OPEN THEN Continue(elf_reset(st))
        ELSE Continue(st)

\* Lines 78-114: the body of parse_elf_sections' loop
elf_line(st, line, section_name) ==
    LET trimmed == trim(line)
        name == extract_name(trimmed, NAME_COLON)
        size_str == strip_prefix(trimmed, SIZE_COLON)
    IN  IF name.tag = "Some"
        THEN Continue([st EXCEPT !.in_target_section = (name.val = section_name)])
        ELSE IF st.in_target_section /\ size_str.tag = "Some"
        THEN LET size == parse_size(size_str.val)
             IN  IF size.tag = "Err" THEN Return(st, size)
                 ELSE Continue([st EXCEPT !.current_size = Some(size.val)])
        ELSE IF st.in_target_section /\ contains(trimmed, SHF_WRITE)
        THEN Continue([st EXCEPT !.current_is_writable = TRUE])
        ELSE IF trimmed = CLOSE_BRACE /\ st.in_target_section /\ st.current_size.tag = "Some"
        THEN Return(st, Ok(Some(SectionInfo(st.current_size.val, st.current_is_writable))))
        ELSE IF trimmed = SECTION_OPEN THEN Continue(elf_reset(st))
        ELSE Continue(st)

\* Lines 140-151: the tracking state, and the target split at its comma
macho_start == [current_segment |-> None, current_name |-> None,
                in_target_section |-> FALSE, current_size |-> None,
                current_is_writable |-> FALSE]

target_segment(section_name) ==
    LET idx == find(section_name, ",")
    IN  IF idx.tag = "Some" THEN Some(SubSeq(section_name, 1, idx.val)) ELSE None

target_section(section_name) ==
    LET idx == find(section_name, ",")
    IN  IF idx.tag = "Some" THEN SubSeq(section_name, idx.val + 2, Len(section_name))
        ELSE section_name

\* Mutant of matches_macho_section: a segment not seen yet is taken to match.
matches_macho_section_unseen(current_segment, current_name, target_seg, target_sec) ==
    IF current_name # target_sec THEN FALSE
    ELSE IF target_seg.tag = "Some"
    THEN IF current_segment.tag = "Some" THEN current_segment.val = target_seg.val
         ELSE TRUE
    ELSE TRUE

\* matches_macho_section
matches_macho_section(current_segment, current_name, target_seg, target_sec) ==
    IF current_name # target_sec THEN FALSE
    ELSE IF target_seg.tag = "Some"
    THEN IF current_segment.tag = "Some" THEN current_segment.val = target_seg.val
         ELSE FALSE
    ELSE TRUE

\* Lines 195-200: reset on a new section
macho_reset(st) ==
    [st EXCEPT !.current_segment = None, !.current_name = None,
               !.in_target_section = FALSE, !.current_size = None,
               !.current_is_writable = FALSE]

\* Lines 154-201: the body of parse_macho_sections' loop
macho_line(st, line, section_name) ==
    LET trimmed == trim(line)
        seg == extract_name(trimmed, SEGMENT_COLON)
        name == extract_name(trimmed, NAME_COLON)
        size_str == strip_prefix(trimmed, SIZE_COLON)
    IN  IF seg.tag = "Some"
        THEN Continue([st EXCEPT
                 !.current_segment = seg,
                 !.current_is_writable = (seg.val = DATA_SEGMENT),
                 !.in_target_section =
                     IF st.current_name.tag = "Some"
                     THEN matches_macho_section(seg, st.current_name.val,
                                                target_segment(section_name),
                                                target_section(section_name))
                     ELSE @])
        ELSE IF name.tag = "Some"
        THEN Continue([st EXCEPT
                 !.current_name = name,
                 !.in_target_section =
                     matches_macho_section(st.current_segment, name.val,
                                           target_segment(section_name),
                                           target_section(section_name))])
        ELSE IF st.in_target_section /\ size_str.tag = "Some"
        THEN LET size == parse_size(size_str.val)
             IN  IF size.tag = "Err" THEN Return(st, size)
                 ELSE Continue([st EXCEPT !.current_size = Some(size.val)])
        ELSE IF trimmed = CLOSE_BRACE /\ st.in_target_section /\ st.current_size.tag = "Some"
        THEN Return(st, Ok(Some(SectionInfo(st.current_size.val, st.current_is_writable))))
        ELSE IF trimmed = SECTION_OPEN THEN Continue(macho_reset(st))
        ELSE Continue(st)

\* Lines 255-257
coff_start == [in_target_section |-> FALSE, current_size |-> None,
               current_is_writable |-> FALSE]

\* Lines 292-296: reset on a new section
coff_reset(st) ==
    [st EXCEPT !.in_target_section = FALSE, !.current_size = None,
               !.current_is_writable = FALSE]

\* Mutant of coff_line: any line that has `Size:` in it sets the size.
coff_line_any_size(st, line, section_name) ==
    LET trimmed == trim(line)
        name == extract_name(trimmed, NAME_COLON)
        colon == find(trimmed, ":")
        size_str == IF contains(trimmed, SIZE_COLON)
                    THEN Some(SubSeq(trimmed, colon.val + 2, Len(trimmed)))
                    ELSE None
    IN  IF name.tag = "Some"
        THEN Continue([st EXCEPT !.in_target_section = (name.val = section_name)])
        ELSE IF st.in_target_section /\ size_str.tag = "Some"
        THEN LET size == parse_size(size_str.val)
             IN  IF size.tag = "Err" THEN Return(st, size)
                 ELSE Continue([st EXCEPT !.current_size = Some(size.val)])
        ELSE IF st.in_target_section /\ contains(trimmed, IMAGE_SCN_MEM_WRITE)
        THEN Continue([st EXCEPT !.current_is_writable = TRUE])
        ELSE IF trimmed = CLOSE_BRACE /\ st.in_target_section /\ st.current_size.tag = "Some"
        THEN Return(st, Ok(Some(SectionInfo(st.current_size.val, st.current_is_writable))))
        ELSE IF trimmed = SECTION_OPEN THEN Continue(coff_reset(st))
        ELSE Continue(st)

\* Lines 260-296: the body of parse_coff_sections' loop
coff_line(st, line, section_name) ==
    LET trimmed == trim(line)
        name == extract_name(trimmed, NAME_COLON)
        size_str == strip_prefix(trimmed, RAW_DATA_SIZE_COLON)
    IN  IF name.tag = "Some"
        THEN Continue([st EXCEPT !.in_target_section = (name.val = section_name)])
        ELSE IF st.in_target_section /\ size_str.tag = "Some"
        THEN LET size == parse_size(size_str.val)
             IN  IF size.tag = "Err" THEN Return(st, size)
                 ELSE Continue([st EXCEPT !.current_size = Some(size.val)])
        ELSE IF st.in_target_section /\ contains(trimmed, IMAGE_SCN_MEM_WRITE)
        THEN Continue([st EXCEPT !.current_is_writable = TRUE])
        ELSE IF trimmed = CLOSE_BRACE /\ st.in_target_section /\ st.current_size.tag = "Some"
        THEN Return(st, Ok(Some(SectionInfo(st.current_size.val, st.current_is_writable))))
        ELSE IF trimmed = SECTION_OPEN THEN Continue(coff_reset(st))
        ELSE Continue(st)

\* Mutant of parser_for: an undetected format is parsed as ELF.
parser_for_defaulting_to_elf(format) ==
    IF format = Some("MachO") THEN Some("parse_macho_sections")
    ELSE IF format = Some("Coff") THEN Some("parse_coff_sections")
    ELSE Some("parse_elf_sections")

\* Lines 85-97 of mod.rs: the parser get_section_info dispatches to, if any
parser_for(format) ==
    IF format = Some("Elf") THEN Some("parse_elf_sections")
    ELSE IF format = Some("MachO") THEN Some("parse_macho_sections")
    ELSE IF format = Some("Coff") THEN Some("parse_coff_sections")
    ELSE None

\* The tracking state a parser starts with
parser_start(parser) ==
    IF parser = "parse_macho_sections" THEN macho_start
    ELSE IF parser = "parse_coff_sections" THEN coff_start
    ELSE elf_start

\* What llvm-readobj --sections prints (the formats in the doc comments of
\* parsing.rs). A block is described by its attributes in the order they are
\* printed; an attribute by its kind k, its text v and its number n.
NameAttr(v, annotated) == [k |-> "Name", v |-> v, n |-> 0, radix |-> 10, annotated |-> annotated]
SegmentAttr(v) == [k |-> "Segment", v |-> v, n |-> 0, radix |-> 10, annotated |-> TRUE]
SizeAttr(k, n, radix) == [k |-> k, v |-> <<>>, n |-> n, radix |-> radix, annotated |-> FALSE]
FlagAttr(k) == [k |-> k, v |-> <<>>, n |-> 0, radix |-> 10, annotated |-> TRUE]
\* A size line whose text v is no number (radix 0).
BadSizeAttr(k, v) == [k |-> k, v |-> v, n |-> 0, radix |-> 0, annotated |-> FALSE]

DIGITS == <<"0", "1", "2", "3", "4", "5", "6", "7", "8", "9", "A", "B", "C", "D", "E", "F">>

RECURSIVE Numeral(_, _)
Numeral(n, radix) ==
    IF n < radix THEN <<DIGITS[n + 1]>>
    ELSE Numeral(n \div radix, radix) \o <<DIGITS[(n % radix) + 1]>>

\* The text a size line prints after its colon.
SizeText(a) ==
    IF a.radix = 0 THEN a.v
    ELSE (IF a.radix = 16 THEN ZERO_X ELSE <<>>) \o Numeral(a.n, a.radix)

\* The line of the report that prints an attribute.
AttrLine(a) ==
    CASE a.k = "Name" ->
           <<" ", " ", " ", " ", "N", "a", "m", "e", ":", " ">> \o a.v \o (IF a.annotated THEN <<" ", "(", "4", "7", "2", ")">> ELSE <<>>)
      [] a.k = "Segment" ->
           <<" ", " ", " ", " ", "S", "e", "g", "m", "e", "n", "t", ":", " ">> \o a.v \o <<" ", "(", "5", "F", " ", "5", "F", " ", "5", "4", " ", "4", "5", " ", "5", "8", " ", "5", "4", " ", "0", "0", ")">>
      [] a.k = "Size" ->
           <<" ", " ", " ", " ", "S", "i", "z", "e", ":", " ">> \o SizeText(a)
      [] a.k = "RawDataSize" ->
           <<" ", " ", " ", " ", "R", "a", "w", "D", "a", "t", "a", "S", "i", "z", "e", ":", " ">> \o SizeText(a)
      [] a.k = "VirtualSize" ->
           <<" ", " ", " ", " ", "V", "i", "r", "t", "u", "a", "l", "S", "i", "z", "e", ":", " ">> \o SizeText(a)
      [] a.k = "SHF_WRITE" -> <<" ", " ", " ", " ", " ", " ", "S", "H", "F", "_", "W", "R", "I", "T", "E", " ", "(", "0", "x", "1", ")">>
      [] a.k = "IMAGE_SCN_MEM_WRITE" -> <<" ", " ", " ", " ", " ", " ", "I", "M", "A", "G", "E", "_", "S", "C", "N", "_", "M", "E", "M", "_", "W", "R", "I", "T", "E", " ", "(", "0", "x", "8", "0", "0", "0", "0", "0", "0", "0", ")">>

BlockLines(body) ==
    << <<" ", " ", "S", "e", "c", "t", "i", "o", "n", " ", "{">> >> \o [j \in 1..Len(body) |-> AttrLine(body[j])] \o << <<" ", " ", "}">> >>

RECURSIVE SectionsLines(_)
SectionsLines(blocks) ==
    IF blocks = <<>> THEN <<>> ELSE BlockLines(Head(blocks)) \o SectionsLines(Tail(blocks))

\* A line of the report's head: its text, and the format a line of the shape
\* `Format: <value>` with that value stands for (None for any other line).
HeadLine(text, says) == [text |-> text, says |-> says]

ReportLines(head, blocks) ==
    [j \in 1..Len(head) |-> head[j].text] \o << <<"S", "e", "c", "t", "i", "o", "n", "s", " ", "[">> >>
    \o SectionsLines(blocks) \o << <<"]">> >>

\* The report as the parsers get it: whole, or without its last two lines
\* (the `}` of the last block and the `]` of the table).
ReportText(head, blocks, whole) ==
    LET lines == ReportLines(head, blocks)
    IN  IF whole THEN lines ELSE SubSeq(lines, 1, Len(lines) - 2)

OTHER_NAME == <<"v", "e", "r", "_", "s", "t", "u", "b", "2">>
TEXT_SEGMENT == <<"_", "_", "T", "E", "X", "T">>
DATA_CONST_SEGMENT == <<"_", "_", "D", "A", "T", "A", "_", "C", "O", "N", "S", "T">>

\* The attributes a block of each format can print.
Attrs(style) ==
    CASE style = "Elf" ->
           { NameAttr(SECTION_NAME, TRUE), NameAttr(OTHER_NAME, FALSE),
             SizeAttr("Size", DEFAULT_BUFFER_SIZE, 10), FlagAttr("SHF_WRITE") }
      [] style = "MachO" ->
           { NameAttr(SECTION_NAME, TRUE), NameAttr(OTHER_NAME, TRUE),
             SegmentAttr(TEXT_SEGMENT), SegmentAttr(DATA_SEGMENT),
             SegmentAttr(DATA_CONST_SEGMENT),
             SizeAttr("Size", DEFAULT_BUFFER_SIZE, 16), SizeAttr("Size", BUFFER_SIZE + 3, 10) }
      [] style = "Coff" ->
           { NameAttr(SECTION_NAME, TRUE), NameAttr(OTHER_NAME, TRUE),
             SizeAttr("VirtualSize", BUFFER_SIZE + 3, 16),
             SizeAttr("RawDataSize", DEFAULT_BUFFER_SIZE, 10),
             FlagAttr("IMAGE_SCN_MEM_WRITE") }

Kinds(style) == { a.k : a \in Attrs(style) }

\* The blocks of a format: at most one attribute of each kind, in any order.
Bodies(style) ==
    { body \in UNION { [1..n -> Attrs(style)] : n \in 0..Cardinality(Kinds(style)) } :
        \A i, j \in DOMAIN body : i # j => body[i].k # body[j].k }

\* The order llvm-readobj prints the attributes in.
Rank(k) ==
    CASE k = "Name" -> 1
      [] k \in {"Segment", "SHF_WRITE", "VirtualSize"} -> 2
      [] k \in {"Size", "RawDataSize"} -> 3
      [] k = "IMAGE_SCN_MEM_WRITE" -> 4

\* The blocks as llvm-readobj prints them: named, attributes in order.
Printed(style) ==
    { body \in Bodies(style) :
        /\ body # <<>>
        /\ body[1].k = "Name"
        /\ \A i, j \in DOMAIN body : i < j => Rank(body[i].k) < Rank(body[j].k) }

\* The section tables scanned: one block of any shape, alone or after a
\* printed block.
SectionTables(style) ==
    { <<body>> : body \in Bodies(style) }
    \cup { <<first, body>> : first \in Printed(style), body \in Bodies(style) }

\* Size lines that hold no number.
BadAttrs(style) ==
    CASE style = "Elf" ->
           { BadSizeAttr("Size", <<"0", "x", "2", "G", "0">>), BadSizeAttr("Size", <<"5", "1", "2", " ", "b", "y", "t", "e", "s">>) }
      [] style = "MachO" ->
           { BadSizeAttr("Size", <<"0", "X", "2", "0", "0">>) }
      [] style = "Coff" ->
           { BadSizeAttr("RawDataSize", <<"0", "x">>), BadSizeAttr("VirtualSize", <<"n", "/", "a">>) }

\* The blocks with such a line: at most one attribute of each kind.
BadBodies(style) ==
    { body \in UNION { [1..n -> Attrs(style) \cup BadAttrs(style)] :
                         n \in 1..Cardinality(Kinds(style)) } :
        /\ \A i, j \in DOMAIN body : i # j => body[i].k # body[j].k
        /\ \E i \in DOMAIN body : body[i] \in BadAttrs(style) }

\* The section tables with such a line: one block of any shape, alone, or a
\* block of any shape after a named block with such a line.
BadTables(style) ==
    { <<body>> : body \in BadBodies(style) }
    \cup { << <<name, bad>>, body >> :
             name \in { a \in Attrs(style) : a.k = "Name" },
             bad \in BadAttrs(style), body \in Bodies(style) }

\* The targets asked for: a section, in any segment or in one segment.
Target(segment, section) == [segment |-> segment, section |-> section]

Targets(style) ==
    IF style = "MachO"
    THEN { Target(None, SECTION_NAME), Target(Some(TEXT_SEGMENT), SECTION_NAME),
           Target(Some(DATA_SEGMENT), SECTION_NAME) }
    ELSE { Target(None, SECTION_NAME) }

\* The section_name that names a target: `section` or `segment,section`.
TargetName(target) ==
    IF target.segment.tag = "Some"
    THEN target.segment.val \o <<",">> \o target.section
    ELSE target.section

Styles == {"Elf", "MachO", "Coff"}

FILLER ==
    << HeadLine(<<>>, None), HeadLine(<<"F", "i", "l", "e", ":", " ", "a", "p", "p">>, None),
       HeadLine(<<"A", "r", "c", "h", ":", " ", "x", "8", "6", "_", "6", "4">>, None), HeadLine(<<"A", "d", "d", "r", "e", "s", "s", "S", "i", "z", "e", ":", " ", "6", "4", "b", "i", "t">>, None),
       HeadLine(<<"L", "o", "a", "d", "N", "a", "m", "e", ":", " ", "<", "N", "o", "t", " ", "f", "o", "u", "n", "d", ">">>, None) >>

\* The head llvm-readobj prints for each format.
HeadOf(style) ==
    << HeadLine(<<"F", "i", "l", "e", ":", " ", "a", "p", "p">>, None),
       CASE style = "Elf" -> HeadLine(<<"F", "o", "r", "m", "a", "t", ":", " ", "e", "l", "f", "6", "4", "-", "x", "8", "6", "-", "6", "4">>, Some("Elf"))
         [] style = "MachO" -> HeadLine(<<"F", "o", "r", "m", "a", "t", ":", " ", "M", "a", "c", "h", "-", "O", " ", "6", "4", "-", "b", "i", "t", " ", "x", "8", "6", "-", "6", "4">>, Some("MachO"))
         [] style = "Coff" -> HeadLine(<<"F", "o", "r", "m", "a", "t", ":", " ", "C", "O", "F", "F", "-", "x", "8", "6", "-", "6", "4">>, Some("Coff")) >>

\* Heads that try format detection: 0 to 5 lines that are no Format line, a
\* Format line of another value or none, a Format line or none, and a second
\* Format line or none.
Heads ==
    { SubSeq(FILLER, 1, k) \o other \o format \o second :
        k \in 0..Len(FILLER),
        other \in { <<>>, <<HeadLine(<<"F", "o", "r", "m", "a", "t", ":", " ", "w", "a", "s", "m">>, None)>>,
                    <<HeadLine(<<"F", "o", "r", "m", "a", "t", ":", " ", "s", "e", "l", "f", "-", "e", "l", "f">>, None)>> },
        format \in { <<>>,
                     <<HeadLine(<<"F", "o", "r", "m", "a", "t", ":", " ", "e", "l", "f", "6", "4", "-", "x", "8", "6", "-", "6", "4">>, Some("Elf"))>>,
                     <<HeadLine(<<"F", "o", "r", "m", "a", "t", ":", "E", "L", "F", "3", "2", "-", "A", "R", "M">>, Some("Elf"))>>,
                     <<HeadLine(<<"F", "o", "r", "m", "a", "t", ":", " ", "M", "a", "c", "h", "-", "O", " ", "6", "4", "-", "b", "i", "t", " ", "x", "8", "6", "-", "6", "4">>, Some("MachO"))>>,
                     <<HeadLine(<<"F", "o", "r", "m", "a", "t", ":", " ", " ", " ", "C", "O", "F", "F", "-", "x", "8", "6", "-", "6", "4", " ", " ">>, Some("Coff"))>> },
        second \in { <<>>, <<HeadLine(<<"F", "o", "r", "m", "a", "t", ":", " ", "c", "o", "f", "f", "-", "a", "r", "m">>, Some("Coff"))>> } }

\* The block that follows the heads above.
PLAIN_BLOCK ==
    << NameAttr(SECTION_NAME, TRUE), FlagAttr("SHF_WRITE"),
       SizeAttr("Size", DEFAULT_BUFFER_SIZE, 10) >>

\* get_section_info(bin, section_name) for a target, on a binary whose report
\* is ReportText(head, sections, whole).
Locate(head, sections, whole, target) ==
    [ pc |-> "start", head |-> head, sections |-> sections, whole |-> whole,
      target |-> target,
      stdout |-> ReportText(head, sections, whole), section_name |-> TargetName(target),
      format |-> None, parser |-> None, st |-> elf_start, line |-> 0,
      calls |-> <<>>, result |-> NotAsked ]

LocateInit ==
    /\ ConstAsserts
    /\ pc = "locate"
    /\ writer_count = COUNT
    /\ member_data = <<>>
    /\ buffer_size = BUFFER_SIZE
    /\ built = NotBuilt
    /\ buffer = <<>>
    /\ members = <<>>
    /\ pokes = 0
    /\ \/ \E style \in Styles :
            \E sections \in SectionTables(style), target \in Targets(style) :
              op = Locate(HeadOf(style), sections, TRUE, target)
       \/ \E style \in Styles :
            \E sections \in BadTables(style), target \in Targets(style) :
              op = Locate(HeadOf(style), sections, TRUE, target)
       \/ \E style \in Styles :
            \E body \in Bodies(style), target \in Targets(style) :
              op = Locate(HeadOf(style), <<body>>, FALSE, target)
       \/ \E head \in Heads :
            op = Locate(head, <<PLAIN_BLOCK>>, TRUE, Target(None, SECTION_NAME))

\* Lines 58-80 of mod.rs: llvm-readobj --sections <bin>
RunReadobj ==
    /\ op.pc = "start"
    /\ \E outcome \in {"not started", "exit status 1", "exit status 0"} :
         op' = IF outcome = "exit status 0"
               THEN [op EXCEPT !.pc = "output",
                               !.calls = Append(@, [fn |-> "llvm-readobj"])]
               ELSE [op EXCEPT !.pc = "done",
                               !.calls = Append(@, [fn |-> "llvm-readobj"]),
                               !.stdout = <<>>,
                               !.result = IoErr]
    /\ PatchFrame

\* Lines 82-97 of mod.rs: detect the format and call its parser
DetectFormat ==
    /\ op.pc = "output"
    /\ LET format == detect(op.stdout)
           parser == parser_for(format)
       IN  op' = IF parser.tag = "None"
                 THEN [op EXCEPT !.pc = "done", !.format = format, !.result = InvalidData]
                 ELSE [op EXCEPT !.pc = "scan", !.format = format, !.parser = parser,
                                 !.calls = Append(@, [fn |-> parser.val]),
                                 !.st = parser_start(parser.val)]
    /\ PatchFrame

\* Mutant of scan_step: a report that ends without a result is an error.
scan_step_not_found_is_error(o, r) ==
    IF r.ret.tag = "Some"
    THEN [o EXCEPT !.pc = "done", !.line = @ + 1, !.st = r.st, !.result = r.ret.val]
    ELSE IF o.line + 1 = Len(o.stdout)
    THEN [o EXCEPT !.pc = "done", !.line = @ + 1, !.st = r.st, !.result = InvalidData]
    ELSE [o EXCEPT !.line = @ + 1, !.st = r.st]

\* One turn of a parser's `for line in output.lines()`, r being what the body
\* did with the line; after the last line the parser returns Ok(None).
scan_step(o, r) ==
    IF r.ret.tag = "Some"
    THEN [o EXCEPT !.pc = "done", !.line = @ + 1, !.st = r.st, !.result = r.ret.val]
    ELSE IF o.line + 1 = Len(o.stdout)
    THEN [o EXCEPT !.pc = "done", !.line = @ + 1, !.st = r.st, !.result = Ok(None)]
    ELSE [o EXCEPT !.line = @ + 1, !.st = r.st]

\* parse_elf_sections, line by line
ElfLine ==
    /\ op.pc = "scan"
    /\ op.parser = Some("parse_elf_sections")
    /\ op' = scan_step(op, elf_line(op.st, op.stdout[op.line + 1], op.section_name))
    /\ PatchFrame

\* parse_macho_sections, line by line
MachoLine ==
    /\ op.pc = "scan"
    /\ op.parser = Some("parse_macho_sections")
    /\ op' = scan_step(op, macho_line(op.st, op.stdout[op.line + 1], op.section_name))
    /\ PatchFrame

\* parse_coff_sections, line by line
CoffLine ==
    /\ op.pc = "scan"
    /\ op.parser = Some("parse_coff_sections")
    /\ op' = scan_step(op, coff_line(op.st, op.stdout[op.line + 1], op.section_name))
    /\ PatchFrame

LocateNext ==
    \/ RunReadobj
    \/ DetectFormat
    \/ ElfLine
    \/ MachoLine
    \/ CoffLine

LocateSpec == LocateInit /\ [][LocateNext]_vars

(***************************************************************************)
(* ver-stub-build/src/llvm_tools/mod.rs: update_section_with_bytes (not     *)
(* Windows), with the llvm-objcopy process at the other end of the pipe.    *)
(*                                                                         *)
(* A pipe holds up to PipeCapacity bytes: a write blocks while it is full,  *)
(* a read while it is empty and its write end is open.                      *)
(***************************************************************************)
\* io::Error::other(format!("llvm-objcopy failed with status {}", status))
FailedWithStatus(status) == [tag |-> "Err", kind |-> "Other", status |-> status]

\* The editing processes: one that reads its standard input to end-of-file
\* and then exits, and one that exits without reading it to the end.
ChildKinds == {"reads to eof", "exits early"}
ExitStatuses == {0, 1}
Payloads == { [j \in 1..n |-> j] : n \in 0..MaxPayload }

\* Lines 185-192: the command, its three streams piped.
Update(bytes, dry_run, kind) ==
    [ pc |-> "start", bytes |-> bytes, dry_run |-> dry_run, kind |-> kind,
      child |-> "none", stdin |-> "none", pipe |-> <<>>, written |-> 0,
      got |-> <<>>, status |-> None, result |-> NotAsked ]

PipeInit ==
    /\ ConstAsserts
    /\ pc = "pipe"
    /\ writer_count = COUNT
    /\ member_data = <<>>
    /\ buffer_size = BUFFER_SIZE
    /\ built = NotBuilt
    /\ buffer = <<>>
    /\ members = <<>>
    /\ pokes = 0
    /\ \E bytes \in Payloads, dry_run \in BOOLEAN, kind \in ChildKinds :
         op = Update(bytes, dry_run, kind)

\* Lines 194-199: the dry run returns Ok; otherwise cmd.spawn()?
Spawn ==
    /\ pc = "pipe"
    /\ op.pc = "start"
    /\ \E spawned \in BOOLEAN :
         op' = IF op.dry_run
               THEN [op EXCEPT !.pc = "done", !.result = Ok(<<>>)]
               ELSE IF spawned
               THEN [op EXCEPT !.pc = "write", !.child = "running", !.stdin = "open"]
               ELSE [op EXCEPT !.pc = "done", !.result = IoErr]
    /\ PatchFrame

\* Line 206: one write(2) of stdin.write_all(bytes), of as many of the
\* remaining bytes as the pipe has room for; a broken pipe once the process
\* has exited.
WriteAll ==
    /\ pc = "pipe"
    /\ op.pc = "write"
    /\ op.written < Len(op.bytes)
    /\ \/ /\ op.child = "exited"
          /\ op' = [op EXCEPT !.pc = "done", !.stdin = "closed", !.result = IoErr]
       \/ /\ op.child = "running"
          /\ \E k \in 1..(PipeCapacity - Len(op.pipe)) :
               /\ op.written + k <= Len(op.bytes)
               /\ op' = [op EXCEPT
                          !.pipe = @ \o SubSeq(op.bytes, op.written + 1, op.written + k),
                          !.written = @ + k]
    /\ PatchFrame

\* Mutant of close_stdin: the write end stays open while the call waits.
close_stdin_forgotten(o) == [o EXCEPT !.pc = "wait"]

\* Line 207: drop(stdin)
close_stdin(o) == [o EXCEPT !.pc = "wait", !.stdin = "closed"]

\* Lines 206-207: write_all has returned Ok; the pipe is closed.
DropStdin ==
    /\ pc = "pipe"
    /\ op.pc = "write"
    /\ op.written = Len(op.bytes)
    /\ op' = close_stdin(op)
    /\ PatchFrame

\* Lines 209-223: child.wait_with_output()?, and the test of the status.
WaitWithOutput ==
    /\ pc = "pipe"
    /\ op.pc = "wait"
    /\ op.child = "exited"
    /\ op' = [op EXCEPT !.pc = "done",
                        !.result = IF op.status.val = 0 THEN Ok(<<>>)
                                   ELSE FailedWithStatus(op.status.val)]
    /\ PatchFrame

\* llvm-objcopy reads some of what the pipe holds.
ChildRead ==
    /\ pc = "pipe"
    /\ op.child = "running"
    /\ op.kind = "reads to eof"
    /\ \E k \in 1..Len(op.pipe) :
         op' = [op EXCEPT !.got = @ \o SubSeq(op.pipe, 1, k),
                          !.pipe = SubSeq(@, k + 1, Len(@))]
    /\ PatchFrame

\* llvm-objcopy reads end-of-file (the pipe is empty and its write end is
\* closed), does its work and exits.
ChildEof ==
    /\ pc = "pipe"
    /\ op.child = "running"
    /\ op.kind = "reads to eof"
    /\ op.pipe = <<>>
    /\ op.stdin = "closed"
    /\ \E status \in ExitStatuses :
         op' = [op EXCEPT !.child = "exited", !.status = Some(status)]
    /\ PatchFrame

\* llvm-objcopy exits without reading its input to the end.
ChildExit ==
    /\ pc = "pipe"
    /\ op.child = "running"
    /\ op.kind = "exits early"
    /\ \E status \in ExitStatuses :
         op' = [op EXCEPT !.child = "exited", !.status = Some(status)]
    /\ PatchFrame

PipeNext ==
    \/ Spawn
    \/ WriteAll
    \/ DropStdin
    \/ WaitWithOutput
    \/ ChildRead
    \/ ChildEof
    \/ ChildExit

\* Both processes are scheduled: the call goes on when it can, and so does
\* llvm-objcopy.
PipeSpec ==
    /\ PipeInit
    /\ [][PipeNext]_vars
    /\ WF_vars(Spawn \/ WriteAll \/ DropStdin \/ WaitWithOutput)
    /\ WF_vars(ChildRead \/ ChildEof \/ ChildExit)

(***************************************************************************)
(* What the format of the section says, read off the bytes directly.       *)
(***************************************************************************)
\* The u16 end offset the section stores for member i.
StoredEnd(buf, i) == buf[1 + 2 * i] + 256 * buf[2 + 2 * i]
\* Member i has its offset bytes (and those of member i-1) inside the section.
HasOffsets(i) == 2 + 2 * i < BUFFER_SIZE
FormatStart(buf, i) ==
    header_size(buf[0]) + (IF i = 0 THEN 0 ELSE StoredEnd(buf, i - 1))
FormatEnd(buf, i) == header_size(buf[0]) + StoredEnd(buf, i)

RECURSIVE TotalLen(_, _)
TotalLen(data, n) ==
    IF n = 0 THEN 0
    ELSE TotalLen(data, n - 1)
         + (IF data[n - 1].tag = "Some" THEN Len(data[n - 1].val) ELSE 0)

NoEmptyString(data) == \A i \in DOMAIN data : data[i].tag = "Some" => data[i].val # <<>>

\* The decode result r is exactly the optional string d.
Decodes(r, d) ==
    IF d.tag = "Some" THEN r.tag = "Some" /\ r.val = d.val ELSE r.tag = "None"

\* What an encoder stores for d: the bytes of a non-empty string, else nothing.
StoredFor(d) == IF d.tag = "Some" /\ d.val # <<>> THEN d ELSE None

(***************************************************************************)
(* Claims                                                                  *)
(***************************************************************************)
\* C1. Round trip: for every array of COUNT optional non-empty strings whose
\* total length plus header_size(COUNT) is at most B = BUFFER_SIZE,
\* build_section_buffer(data, B) returns a buffer, and get_idx_from_buffer on
\* it returns exactly data[i] for every i in 0..COUNT.
C1_RoundTrip ==
    (/\ writer_count = COUNT
     /\ buffer_size = BUFFER_SIZE
     /\ NoEmptyString(member_data)
     /\ header_size(COUNT) + TotalLen(member_data, COUNT) <= BUFFER_SIZE)
    => /\ pc \notin {"build_panicked", "try_into_panicked"}
       /\ pc = "read" => \A i \in 0..(COUNT - 1) : Decodes(members[i], member_data[i])

\* The claim's example was encoded and read back: 0, 2, 5 present, 1, 3, 4 absent.
C1_Witness ==
    /\ pc = "read"
    /\ writer_count = COUNT
    /\ NoEmptyString(member_data)
    /\ \A i \in {0, 2, 5} : member_data[i].tag = "Some" /\ members[i].tag = "Some"
    /\ \A i \in {1, 3, 4} : member_data[i].tag = "None" /\ members[i].tag = "None"
    /\ header_size(COUNT) + TotalLen(member_data, COUNT) = BUFFER_SIZE

\* C2. For an all-zero buffer get_idx_from_buffer returns None for every index,
\* without panicking, and on the strength of byte 0 alone.
C2_ZeroBuffer ==
    (pc = "read" /\ buffer = Zeroes(BUFFER_SIZE))
    => \A i \in Indices : members[i].tag = "None" /\ members[i].reads = {0}

C2_Witness ==
    /\ pc = "read"
    /\ buffer = Zeroes(BUFFER_SIZE)
    /\ pokes = 0
    /\ \A i \in Indices : members[i].tag = "None"

\* C3. Forward compatibility: if byte 0 stores k, every index i >= k decodes to
\* None, without a panic and without reading any byte but byte 0, whatever the
\* reader's COUNT and the rest of the buffer.
C3_ForwardCompat ==
    pc = "read"
    => \A i \in Indices :
         i >= buffer[0] => members[i].tag = "None" /\ members[i].reads = {0}

\* An index the reader knows (below COUNT) but the section does not declare,
\* in a section that is not all zero.
C3_Witness ==
    /\ pc = "read"
    /\ buffer[0] \in 1..(COUNT - 1)
    /\ \E i \in Indices : i >= buffer[0] /\ i < COUNT /\ members[i].tag = "None"
    /\ \E j \in 1..(BUFFER_SIZE - 1) : buffer[j] # 0

\* C4. Backward compatibility: a buffer written by an encoder whose member
\* count k differs from the reader's COUNT decodes, for every i < min(k, COUNT),
\* to exactly what the writer stored at i.
C4_BackwardCompat ==
    (pc = "read" /\ writer_count # COUNT)
    => \A i \in 0..(COUNT - 1) :
         i < writer_count => Decodes(members[i], StoredFor(member_data[i]))

\* A newer writer (k = COUNT + 1) stored a string in its extra slot and in an
\* old one, and the reader read the old one.
C4_Witness ==
    /\ pc = "read"
    /\ writer_count = COUNT + 1
    /\ member_data[COUNT].tag = "Some" /\ member_data[COUNT].val # <<>>
    /\ \E i \in 1..(COUNT - 1) :
         /\ member_data[i].tag = "Some" /\ member_data[i].val # <<>>
         /\ members[i].tag = "Some"

\* C5. Inverted range: if member i (declared by byte 0) has a stored end offset
\* below that of member i - 1, decoding i panics: neither a slice nor None.
C5_InvertedRange ==
    pc = "read"
    => \A i \in Indices :
         (/\ i >= 1
          /\ i < buffer[0]
          /\ HasOffsets(i)
          /\ StoredEnd(buffer, i) < StoredEnd(buffer, i - 1))
         => members[i].tag = "Panic"

C5_Witness ==
    /\ pc = "read"
    /\ \E i \in Indices :
         /\ i >= 1
         /\ i < buffer[0]
         /\ HasOffsets(i)
         /\ StoredEnd(buffer, i) < StoredEnd(buffer, i - 1)
         /\ members[i].tag = "Panic"

\* C6. Out of bounds: if member i (declared by byte 0) has start < end and
\* header_size(num_members) + end[i] > BUFFER_SIZE, decoding i panics.
C6_OutOfBounds ==
    pc = "read"
    => \A i \in Indices :
         (/\ i < buffer[0]
          /\ HasOffsets(i)
          /\ FormatStart(buffer, i) < FormatEnd(buffer, i)
          /\ FormatEnd(buffer, i) > BUFFER_SIZE)
         => members[i].tag = "Panic"

\* The high byte of the offset alone puts the end outside the section.
C6_Witness ==
    /\ pc = "read"
    /\ \E i \in Indices :
         /\ i < buffer[0]
         /\ HasOffsets(i)
         /\ FormatStart(buffer, i) < FormatEnd(buffer, i)
         /\ FormatEnd(buffer, i) > BUFFER_SIZE
         /\ header_size(buffer[0]) + buffer[1 + 2 * i] <= BUFFER_SIZE
         /\ members[i].tag = "Panic"

\* C7. Encoding: if member i's range is in bounds and non-empty and its bytes
\* are not valid UTF-8, decoding i panics; and whatever string decode returns
\* is the bytes of that range, unchanged and whole.
C7_InvalidUtf8 ==
    pc = "read"
    => \A i \in Indices :
         (/\ i < buffer[0]
          /\ HasOffsets(i)
          /\ FormatStart(buffer, i) < FormatEnd(buffer, i)
          /\ FormatEnd(buffer, i) <= BUFFER_SIZE)
         => /\ ~from_utf8(Slice(buffer, FormatStart(buffer, i), FormatEnd(buffer, i)))
               => members[i].tag = "Panic"
            /\ members[i].tag = "Some"
               => members[i].val = Slice(buffer, FormatStart(buffer, i), FormatEnd(buffer, i))

\* A multi-byte sequence cut short by the end of the member's range.
C7_Witness ==
    /\ pc = "read"
    /\ \E i \in Indices :
         /\ i < buffer[0]
         /\ HasOffsets(i)
         /\ FormatStart(buffer, i) < FormatEnd(buffer, i)
         /\ FormatEnd(buffer, i) <= BUFFER_SIZE
         /\ buffer[FormatEnd(buffer, i) - 1] = 195
         /\ ~from_utf8(Slice(buffer, FormatStart(buffer, i), FormatEnd(buffer, i)))
         /\ members[i].tag = "Panic"
         /\ members[i].msg = "invalid UTF-8"

\* C8. Capacity: whenever header_size(COUNT) plus the total length of the
\* present strings exceeds buffer_size, build_section_buffer panics and
\* returns no buffer.
C8_Capacity ==
    (header_size(writer_count) + TotalLen(member_data, writer_count) > buffer_size)
    => /\ built.tag # "Ok"
       /\ pc # "start" => pc = "build_panicked" /\ built.tag = "Panic"

\* The header fits and the strings do not.
C8_Witness ==
    /\ pc = "build_panicked"
    /\ writer_count = COUNT
    /\ buffer_size > header_size(COUNT)
    /\ header_size(COUNT) + TotalLen(member_data, COUNT) = buffer_size + 4

\* The calls of one kind that the patch operation has made so far.
CallsOf(fn) == { j \in 1..Len(op.calls) : op.calls[j].fn = fn }

\* C9. When the Section Locator returns None, the patch operation (unless
\* fs::copy itself reports an I/O error) ends in success with the output path
\* holding the input binary byte for byte, has emitted a warning, and has
\* called neither the encoder nor the editing tool.
C9_AbsentCopies ==
    (op.pc = "done" /\ op.section_info = None /\ op.result # "panic: failed to copy")
    => /\ op.result = "ok"
       /\ op.fs[op.output_path.val] = File("input")
       /\ Len(op.warnings) = 1
       /\ CallsOf("build_section_bytes") = {}
       /\ CallsOf("update_section_with_bytes") = {}

\* C10. When the Section Locator returns Some(info), the bytes handed to the
\* editing tool have length info.size, whatever with_buffer_size, the
\* VER_STUB_BUFFER_SIZE environment variable and BUFFER_SIZE say.
C10_SectionSizeGoverns ==
    \A j \in CallsOf("update_section_with_bytes") :
      /\ op.section_info.tag = "Some"
      /\ Cardinality(DOMAIN op.calls[j].bytes) = op.section_info.val.size

\* The editing tool was called with a preset size, an environment size and a
\* default that all differ from the section's size.
C10_Witness ==
    /\ op.pc = "done"
    /\ CallsOf("update_section_with_bytes") # {}
    /\ op.link_section.buffer_size.tag = "Some"
    /\ op.link_section.buffer_size.val # op.section_info.val.size
    /\ op.env_var.tag = "Some"
    /\ parse_usize(op.env_var.val).tag = "Some"
    /\ parse_usize(op.env_var.val).val # op.section_info.val.size
    /\ BUFFER_SIZE # op.section_info.val.size

\* The same operation on a section whose writable flag is the other one: the
\* flag flipped and, once lines 107-112 have run, the writable warning
\* present where it was absent and absent where it was present.
Twin(o) ==
    LET info == o.section_info.val
    IN  [o EXCEPT !.section_info = Some(SectionInfo(info.size, ~info.is_writable)),
                  !.warnings = IF o.pc = "present" THEN @
                               ELSE IF info.is_writable THEN <<>>
                               ELSE <<"section is writable">>]

\* C11. A writable section is only a warning: each step the operation takes
\* once the section is found, the operation on the twin input (info.is_writable
\* flipped) takes too, ending with the same calls and bytes, output path,
\* files and outcome; the two differ by exactly the one writable warning.
C11_WritableOnlyWarns ==
    [][ /\ op.pc = "present" =>
            \E collected \in CollectedArrays :
              /\ op' = build_step(op, collected)
              /\ build_step(Twin(op), collected) = Twin(op')
        /\ op.pc = "encoded" =>
            \E ok \in BOOLEAN :
              /\ op' = update_step(op, ok)
              /\ update_step(Twin(op), ok) = Twin(op')
        /\ op.pc \in {"present", "encoded"} =>
            /\ Twin(op').calls = op'.calls
            /\ Twin(op').output_path = op'.output_path
            /\ Twin(op').fs = op'.fs
            /\ Twin(op').result = op'.result
            /\ Len(op'.warnings) = IF op'.section_info.val.is_writable THEN 1 ELSE 0
            /\ Len(Twin(op').warnings) = IF op'.section_info.val.is_writable THEN 0 ELSE 1
      ]_vars

\* A writable section was patched: warned about, and written all the same.
C11_Witness ==
    /\ op.pc = "done"
    /\ op.section_info.tag = "Some"
    /\ op.section_info.val.is_writable
    /\ op.warnings = <<"section is writable">>
    /\ op.result = "ok"
    /\ CallsOf("update_section_with_bytes") # {}

\* s without the suffix, if it ends with it; s itself if not.
WithoutSuffix(s, suffix) ==
    CHOOSE base \in {SubSeq(s, 1, n) : n \in 0..Len(s)} :
      IF \E b \in {SubSeq(s, 1, n) : n \in 0..Len(s)} : b \o suffix = s
      THEN base \o suffix = s
      ELSE base = s

FallibleCalls == {"get_section_info", "update_section_with_bytes", "fs::copy"}

\* C13. Every underlying failure of a patch operation (a tool that fails or
\* cannot be started, a copy or a write that fails) comes back to the caller
\* as an error value, not as a panic, and no step is retried: each external
\* tool and the copy are invoked at most once.
C13_FailuresAreErrors ==
    /\ \A fn \in FallibleCalls : Cardinality(CallsOf(fn)) <= 1
    /\ op.pc = "done" =>
         op.result \notin { "panic: failed to read section info",
                            "panic: failed to update section",
                            "panic: failed to copy" }

(***************************************************************************)
(* What a report says, read off the description of the binary it prints.   *)
(***************************************************************************)
\* llvm-readobj has run and its report has been handed to BinaryFormat::detect.
Detected == op.pc \in {"scan", "done"} /\ CallsOf("llvm-readobj") # {} /\ op.stdout # <<>>

\* The parser that is scanning, or has scanned, the report.
Scanning(parser) == op.pc \in {"scan", "done"} /\ op.parser = Some(parser)

\* Where the scan stands after `l` lines of the section table: the block it
\* is in (the last one opened), how many of the block's attribute lines it
\* has read, and whether the line just read is the block's `Section {`.
RECURSIVE Cursor(_, _, _)
Cursor(blocks, l, last) ==
    IF blocks = <<>> \/ l <= 0
    THEN [block |-> last, seen |-> Len(last), opening |-> FALSE]
    ELSE IF l <= Len(Head(blocks)) + 2
    THEN [block |-> Head(blocks),
          seen |-> IF l - 1 <= Len(Head(blocks)) THEN l - 1 ELSE Len(Head(blocks)),
          opening |-> l = 1]
    ELSE Cursor(Tail(blocks), l - (Len(Head(blocks)) + 2), Head(blocks))

\* The scan's place in op's report; the head and `Sections [` come first.
Here == Cursor(op.sections, op.line - (Len(op.head) + 1), <<>>)

\* The positions of the attributes of a kind in a block.
Places(body, k) == { j \in DOMAIN body : body[j].k = k }

\* A block is named `name` and prints a size of kind k after its name.
NamedWithSize(body, name, k) ==
    \E i \in Places(body, "Name") :
      body[i].v = name /\ \E j \in Places(body, k) : j > i

\* The size of kind k such a block prints after its name.
SizeAfterName(body, k) ==
    LET i == CHOOSE i \in Places(body, "Name") : TRUE
        j == CHOOSE j \in Places(body, k) : j > i
    IN  body[j].n

\* The block prints the flag k after its name.
FlagAfterName(body, k) ==
    \E i \in Places(body, "Name") : \E j \in Places(body, k) : j > i

\* The first block of the section table that satisfies Wanted, if any.
FirstBlock(Wanted(_)) ==
    IF \E b \in DOMAIN op.sections : Wanted(op.sections[b])
    THEN Some(op.sections[CHOOSE b \in DOMAIN op.sections :
                            /\ Wanted(op.sections[b])
                            /\ \A e \in 1..(b - 1) : ~Wanted(op.sections[e])])
    ELSE None

\* The report is whole and every size line of it holds a number.
Plain ==
    /\ op.whole
    /\ \A b \in DOMAIN op.sections : \A j \in DOMAIN op.sections[b] :
         op.sections[b][j].radix # 0

\* C14. BinaryFormat::detect looks at the first 5 lines only and returns the
\* format of the first of them that is a `Format: <value>` line whose value
\* starts, trimmed and in any case, with elf, mach-o or coff; Format lines
\* of other values are passed over; with no such line among the first 5 it
\* returns nothing, whatever comes later.
C14_Detect ==
    Detected =>
      LET telling == { j \in DOMAIN op.head : j <= 5 /\ op.head[j].says.tag = "Some" }
      IN  IF telling = {}
          THEN op.format = None
          ELSE op.format = op.head[CHOOSE j \in telling : \A i \in telling : j <= i].says

\* The only Format line of a known format is line 6: nothing is detected.
C14_Witness ==
    /\ Detected
    /\ Len(op.head) >= 6
    /\ op.head[6].says.tag = "Some"
    /\ \A j \in 1..5 : op.head[j].says.tag = "None"
    /\ \E j \in 1..5 : starts_with(op.head[j].text, FORMAT_COLON)
    /\ op.format = None

Parsers == {"parse_elf_sections", "parse_macho_sections", "parse_coff_sections"}

\* C15. When the format of the report is not detected, get_section_info
\* returns an error and calls no parser; when it is, it calls the parser of
\* the detected format and no other.
C15_Dispatch ==
    Detected =>
      IF op.format = None
      THEN /\ op.pc = "done"
           /\ op.result = InvalidData
           /\ \A parser \in Parsers : CallsOf(parser) = {}
      ELSE /\ Cardinality(CallsOf("parse_elf_sections")) = IF op.format.val = "Elf" THEN 1 ELSE 0
           /\ Cardinality(CallsOf("parse_macho_sections")) = IF op.format.val = "MachO" THEN 1 ELSE 0
           /\ Cardinality(CallsOf("parse_coff_sections")) = IF op.format.val = "Coff" THEN 1 ELSE 0
           /\ \A parser \in Parsers : CallsOf(parser) # {} => op.parser = Some(parser)

\* A report with no Format line at all: an error, and no parser called.
C15_Witness ==
    /\ Detected
    /\ \A j \in DOMAIN op.stdout : ~starts_with(op.stdout[j], FORMAT_COLON)
    /\ op.pc = "done"
    /\ op.result = InvalidData
    /\ \A parser \in Parsers : CallsOf(parser) = {}

ElfWanted(body) == NamedWithSize(body, op.target.section, "Size")

\* C16. For a whole report whose size lines hold numbers,
\* parse_elf_sections returns Some{size, is_writable} for the first
\* block whose Name, annotation stripped, is exactly the target and that
\* prints a Size after the Name: size is that Size, and is_writable says
\* whether the block prints SHF_WRITE after its Name; with no such block it
\* returns None.
C16_Elf ==
    (Scanning("parse_elf_sections") /\ op.pc = "done" /\ Plain) =>
      LET first == FirstBlock(ElfWanted)
      IN  IF first.tag = "Some"
          THEN op.result = Ok(Some(SectionInfo(SizeAfterName(first.val, "Size"),
                                               FlagAfterName(first.val, "SHF_WRITE"))))
          ELSE op.result = Ok(None)

\* The claim's example: Name ver_stub, Size 512, SHF_WRITE present.
C16_Witness ==
    /\ Scanning("parse_elf_sections")
    /\ op.pc = "done"
    /\ op.head = HeadOf("Elf")
    /\ op.sections = << << NameAttr(SECTION_NAME, TRUE), FlagAttr("SHF_WRITE"),
                           SizeAttr("Size", 512, 10) >> >>
    /\ op.result = Ok(Some(SectionInfo(512, TRUE)))

\* C17. At every point of the Mach-O scan, the block is in-target exactly if
\* its Name line has been read and is the target's section and, for a
\* target given as `segment,section`, a Segment line of the same block has
\* been read and is the target's segment.
C17_MachoInTarget ==
    Scanning("parse_macho_sections") =>
      op.st.in_target_section =
        /\ \E i \in Places(Here.block, "Name") :
             i <= Here.seen /\ Here.block[i].v = op.target.section
        /\ op.target.segment.tag = "Some" =>
             \E j \in Places(Here.block, "Segment") :
               j <= Here.seen /\ Here.block[j].v = op.target.segment.val

\* A qualified target, the block's Name read and right, its (right) Segment
\* line not read yet: not in-target.
C17_Witness ==
    /\ Scanning("parse_macho_sections")
    /\ op.pc = "scan"
    /\ op.target.segment.tag = "Some"
    /\ \E i \in Places(Here.block, "Name") :
         i <= Here.seen /\ Here.block[i].v = op.target.section
    /\ \E j \in Places(Here.block, "Segment") :
         j > Here.seen /\ Here.block[j].v = op.target.segment.val
    /\ ~op.st.in_target_section

\* A Mach-O block matches once its Name, and for a qualified target its
\* Segment, are read; it is wanted if it prints a Size after that.
MachoWanted(body) ==
    \E i \in Places(body, "Name") : \E j \in Places(body, "Size") :
      /\ body[i].v = op.target.section
      /\ i < j
      /\ op.target.segment.tag = "Some" =>
           \E s \in Places(body, "Segment") : s < j /\ body[s].v = op.target.segment.val

\* C18. For a whole report whose size lines hold numbers and the matched
\* Mach-O block, size is the value of its Size line,
\* decimal or 0x-hexadecimal, and is_writable says whether the block's
\* Segment is exactly __DATA.
C18_MachoInfo ==
    (Scanning("parse_macho_sections") /\ op.pc = "done" /\ Plain) =>
      LET first == FirstBlock(MachoWanted)
      IN  first.tag = "Some" =>
            op.result =
              Ok(Some(SectionInfo(
                    first.val[CHOOSE j \in Places(first.val, "Size") : TRUE].n,
                    \E s \in Places(first.val, "Segment") :
                      first.val[s].v = <<"_", "_", "D", "A", "T", "A">>)))

\* The claim's example: Segment __TEXT, Name ver_stub, Size 0x200.
C18_Witness ==
    /\ Scanning("parse_macho_sections")
    /\ op.pc = "done"
    /\ op.sections = << << SegmentAttr(TEXT_SEGMENT), NameAttr(SECTION_NAME, TRUE),
                           SizeAttr("Size", 512, 16) >> >>
    /\ AttrLine(SizeAttr("Size", 512, 16)) = <<" ", " ", " ", " ", "S", "i", "z", "e", ":", " ", "0", "x", "2", "0", "0">>
    /\ op.result = Ok(Some(SectionInfo(512, FALSE)))

CoffWanted(body) == NamedWithSize(body, op.target.section, "RawDataSize")

\* C19. For a whole report whose size lines hold numbers,
\* parse_coff_sections returns Some{size, is_writable} for the first
\* block whose Name is exactly the target (and that prints a RawDataSize
\* after it): size is the RawDataSize, never a VirtualSize, and is_writable
\* says whether the block prints IMAGE_SCN_MEM_WRITE after its Name; with no
\* such block it returns None.
C19_Coff ==
    (Scanning("parse_coff_sections") /\ op.pc = "done" /\ Plain) =>
      LET first == FirstBlock(CoffWanted)
      IN  IF first.tag = "Some"
          THEN op.result = Ok(Some(SectionInfo(SizeAfterName(first.val, "RawDataSize"),
                                               FlagAfterName(first.val, "IMAGE_SCN_MEM_WRITE"))))
          ELSE op.result = Ok(None)

\* A block with a VirtualSize, a different RawDataSize and the write flag.
C19_Witness ==
    /\ Scanning("parse_coff_sections")
    /\ op.pc = "done"
    /\ \E body \in {op.sections[1]} :
         /\ CoffWanted(body)
         /\ \E v \in Places(body, "VirtualSize") :
              body[v].n # SizeAfterName(body, "RawDataSize")
         /\ FlagAfterName(body, "IMAGE_SCN_MEM_WRITE")
         /\ op.result = Ok(Some(SectionInfo(SizeAfterName(body, "RawDataSize"), TRUE)))

\* The kind of line a parser takes a block's size from, and whether a block
\* shows the parser that it is writable.
SizeKind(parser) == IF parser = "parse_coff_sections" THEN "RawDataSize" ELSE "Size"
ShowsWritable(parser, body) ==
    CASE parser = "parse_elf_sections" -> Places(body, "SHF_WRITE") # {}
      [] parser = "parse_coff_sections" -> Places(body, "IMAGE_SCN_MEM_WRITE") # {}
      [] parser = "parse_macho_sections" ->
           \E s \in Places(body, "Segment") : body[s].v = DATA_SEGMENT

\* C20. In all three parsers a `Section {` line leaves the tracking state as
\* it was at the start of the scan, and a returned SectionInfo comes from the
\* lines of the block it is returned for alone: its size is printed in that
\* block, and it is writable only if that block shows it.
C20_BlockReset ==
    \A parser \in Parsers :
      Scanning(parser) =>
        /\ Here.opening => op.st = parser_start(parser)
        /\ (op.pc = "done" /\ op.result.tag = "Ok" /\ op.result.val.tag = "Some") =>
             /\ \E j \in Places(Here.block, SizeKind(parser)) :
                  Here.block[j].n = op.result.val.val.size
             /\ op.result.val.val.is_writable => ShowsWritable(parser, Here.block)

\* A target block without a size that shows it is writable, then a target
\* block with a size that does not: the result is not writable.
C20_Witness ==
    /\ Scanning("parse_elf_sections")
    /\ op.pc = "done"
    /\ Len(op.sections) = 2
    /\ op.sections[1] = << NameAttr(SECTION_NAME, TRUE), FlagAttr("SHF_WRITE") >>
    /\ Places(op.sections[2], "SHF_WRITE") = {}
    /\ Here.block = op.sections[2]
    /\ op.result = Ok(Some(SectionInfo(DEFAULT_BUFFER_SIZE, FALSE)))

\* The blocks a parser takes a size from: named as the target (for Mach-O,
\* in the target's segment), with a size line after that.
Wanted(parser, body) ==
    CASE parser = "parse_elf_sections" -> ElfWanted(body)
      [] parser = "parse_macho_sections" -> MachoWanted(body)
      [] parser = "parse_coff_sections" -> CoffWanted(body)

\* The size line a parser reads in a block.
SizeLine(parser, body) == body[CHOOSE j \in Places(body, SizeKind(parser)) : TRUE]

\* The number of the report's line that closes block b, and whether the
\* report has that line.
RECURSIVE ClosingLine(_)
ClosingLine(b) ==
    IF b = 0 THEN Len(op.head) + 1 ELSE ClosingLine(b - 1) + Len(op.sections[b]) + 2

Closed(b) == ClosingLine(b) <= Len(op.stdout)

\* C21. A parser returns Some(info) only on reading the closing line of a
\* block, with the block in-target and info.size captured; when no block of
\* the report has the target's name, or the blocks that have it print no
\* size, or the block that has both is never closed, it returns Ok(None).
C21_SomeOnlyAtClose ==
    \A parser \in Parsers :
      (Scanning(parser) /\ op.pc = "done") =>
        /\ (op.result.tag = "Ok" /\ op.result.val.tag = "Some") =>
             /\ \E b \in DOMAIN op.sections : op.line = ClosingLine(b)
             /\ op.stdout[op.line] = <<" ", " ", "}">>
             /\ op.st.in_target_section
             /\ op.st.current_size = Some(op.result.val.val.size)
        /\ (\A b \in DOMAIN op.sections :
              Wanted(parser, op.sections[b]) =>
                ~Closed(b) /\ SizeLine(parser, op.sections[b]).radix # 0)
             => op.result = Ok(None)

\* The target block prints its size and the report ends before its `}`.
C21_Witness ==
    /\ Scanning("parse_coff_sections")
    /\ op.pc = "done"
    /\ ~op.whole
    /\ Wanted("parse_coff_sections", op.sections[1])
    /\ op.st.in_target_section
    /\ op.st.current_size = Some(DEFAULT_BUFFER_SIZE)
    /\ op.line = Len(op.stdout)
    /\ op.result = Ok(None)

\* C22. A parser returns an InvalidData error exactly when the first block
\* it takes a size from holds, on its size line, text that is no decimal
\* and no 0x-hexadecimal number; such text in any other block, or on a line
\* the parser takes no size from, is no error.
C22_BadSize ==
    \A parser \in Parsers :
      (Scanning(parser) /\ op.pc = "done") =>
        LET first == FirstBlock(LAMBDA body : Wanted(parser, body))
        IN  (op.result = InvalidData)
              <=> (first.tag = "Some" /\ SizeLine(parser, first.val).radix = 0)

\* The target block prints `Size: 512 bytes`: the scan fails on that line.
C22_Witness ==
    /\ Scanning("parse_elf_sections")
    /\ op.pc = "done"
    /\ op.sections = << << NameAttr(SECTION_NAME, TRUE),
                           BadSizeAttr("Size", <<"5", "1", "2", " ", "b", "y", "t", "e", "s">>) >> >>
    /\ op.line = ClosingLine(1) - 1
    /\ op.result = InvalidData

\* C23. In every buffer build_section_buffer returns, byte 0 is COUNT, the
\* little-endian u16 of member i is the total length of the present strings
\* at 0..=i, the strings lie back to back in index order from
\* header_size(COUNT) on, and every byte after them is 0.
C23_HeaderLayout ==
    (writer_count = COUNT /\ built.tag = "Ok") =>
      /\ built.buf[0] = COUNT
      /\ \A i \in 0..(COUNT - 1) :
           /\ StoredEnd(built.buf, i) = TotalLen(member_data, i + 1)
           /\ member_data[i].tag = "Some" =>
                Slice(built.buf, header_size(COUNT) + TotalLen(member_data, i),
                      header_size(COUNT) + TotalLen(member_data, i + 1))
                  = member_data[i].val
      /\ \A j \in DOMAIN built.buf :
           j >= header_size(COUNT) + TotalLen(member_data, COUNT) => built.buf[j] = 0

\* C29. Whatever buffer_size and members build_section_buffer returns a
\* buffer for, each stored end offset is the cumulative length of the
\* strings up to its member, not that length modulo 2^16, and so the header
\* locates every present string.
C29_NoWrapAround ==
    built.tag = "Ok" =>
      \A i \in 0..(writer_count - 1) :
        /\ StoredEnd(built.buf, i) = TotalLen(member_data, i + 1)
        /\ (member_data[i].tag = "Some" /\ member_data[i].val # <<>>) =>
             /\ FormatStart(built.buf, i) < FormatEnd(built.buf, i)
             /\ FormatEnd(built.buf, i) <= buffer_size
             /\ Slice(built.buf, FormatStart(built.buf, i), FormatEnd(built.buf, i))
                  = member_data[i].val

\* The member array with every present empty string made absent.
WithoutEmpty(data) == [i \in DOMAIN data |-> StoredFor(data[i])]

\* C26. A member given to the encoder as a present empty string is encoded
\* exactly as if it were absent: the buffer is the one the encoder returns
\* for the array without it (and it returns none for either or for both), the member's end offset is its start, and the
\* reader returns absent for it.
C26_EmptyIsAbsent ==
    /\ (built.tag # "NotRun" /\ ~NoEmptyString(member_data)) =>
         LET without == build_section_buffer(writer_count, WithoutEmpty(member_data),
                                             buffer_size)
         IN  built.tag = without.tag /\ built.buf = without.buf
    /\ built.tag = "Ok" =>
         \A i \in 0..(writer_count - 1) :
           member_data[i] = Some(<<>>) =>
             StoredEnd(built.buf, i) = (IF i = 0 THEN 0 ELSE StoredEnd(built.buf, i - 1))
    /\ pc = "read" =>
         \A i \in 0..(COUNT - 1) :
           (i < writer_count /\ member_data[i] = Some(<<>>)) => members[i].tag = "None"

\* An empty string between two strings that decode.
C26_Witness ==
    /\ pc = "read"
    /\ writer_count = COUNT
    /\ member_data[0] = Some(ASDF) /\ members[0].tag = "Some"
    /\ member_data[1] = Some(<<>>) /\ members[1].tag = "None"
    /\ member_data[2] = Some(ASDF) /\ members[2].tag = "Some"

\* C30. Whatever the section holds and whatever the index,
\* get_idx_from_buffer reads no byte at an offset >= BUFFER_SIZE, and it
\* ends in one of three ways: absent, a panic, or a slice [start, end) with
\* header_size(stored num_members) <= start < end <= BUFFER_SIZE.
C30_DecodeInBounds ==
    pc = "read" =>
      \A i \in Indices :
        /\ \A offset \in members[i].reads : offset >= 0 /\ offset < BUFFER_SIZE
        /\ members[i].tag \in {"None", "Panic", "Some"}
        /\ members[i].tag = "Some" =>
             /\ header_size(buffer[0]) <= members[i].start
             /\ members[i].start < members[i].end
             /\ members[i].end <= BUFFER_SIZE
             /\ members[i].val = Slice(buffer, members[i].start, members[i].end)

\* The offset bytes of an index the section declares lie past the section's
\* end: the read is refused; and a member that ends on the section's last byte.
C30_Witness ==
    /\ pc = "read"
    /\ \E i \in Indices :
         /\ i < buffer[0]
         /\ ~HasOffsets(i)
         /\ members[i].tag = "Panic"
         /\ members[i].msg = "out of bounds"

\* The calls that write the output file.
WritingCalls == CallsOf("update_section_with_bytes") \cup CallsOf("fs::copy")

\* C27. In a patch operation the section is located before anything is
\* written; the editing tool is invoked only after the locator returned
\* Some(info) and the encoder returned a buffer of info.size bytes; after an
\* error of the locator or a failure of the encoder the editing tool is not
\* invoked and the files are as they were.
C27_PatchOrdering ==
    pc = "patch" =>
      /\ \A j \in WritingCalls : \E i \in CallsOf("get_section_info") : i < j
      /\ op.fs # (op.bin_path :> File("input")) => WritingCalls # {}
      /\ \A j \in CallsOf("update_section_with_bytes") :
           /\ op.section_info.tag = "Some"
           /\ \E i \in CallsOf("build_section_bytes") : i < j
           /\ op.section_bytes.tag = "Ok"
           /\ Cardinality(DOMAIN op.section_bytes.buf) = op.section_info.val.size
           /\ op.calls[j].bytes = op.section_bytes.buf
      /\ (op.section_info.tag = "Err" \/ op.section_bytes.tag = "Panic") =>
           /\ WritingCalls = {}
           /\ op.fs = (op.bin_path :> File("input"))
           /\ op.pc = "done" /\ op.result # "ok"

\* The section is smaller than what is to be stored: the encoder fails and
\* nothing is written.
C27_Witness ==
    /\ pc = "patch"
    /\ op.pc = "done"
    /\ op.section_info.tag = "Some"
    /\ op.section_info.val.size >= header_size(COUNT)
    /\ op.section_bytes.tag = "Panic"
    /\ op.result = "panic: section data too large"
    /\ WritingCalls = {}
    /\ op.fs = (op.bin_path :> File("input"))

\* C28. update_section_with_bytes, once it has started llvm-objcopy, has
\* written the whole payload to the process's standard input and closed the
\* pipe when it starts to wait, so that a process that reads its input to
\* end-of-file and then exits gets the whole payload and the call returns;
\* it returns Ok only if the process exited with success, and the error
\* naming the exit status if it exited otherwise.
C28_PipeThenWait ==
    /\ [](pc = "pipe" =>
            /\ op.pc = "wait" => op.written = Len(op.bytes) /\ op.stdin = "closed"
            /\ (op.kind = "reads to eof" /\ op.child = "exited") => op.got = op.bytes
            /\ (op.pc = "done" /\ ~op.dry_run /\ op.result.tag = "Ok") =>
                 op.child = "exited" /\ op.status = Some(0)
            /\ (op.pc = "done" /\ op.child = "exited" /\ op.written = Len(op.bytes)
                   /\ op.status # Some(0)) =>
                 op.result = FailedWithStatus(op.status.val))
    /\ ((pc = "pipe" /\ op.child = "running" /\ op.kind = "reads to eof")
          ~> (op.pc = "done"))

\* A payload longer than the pipe holds went through it whole, the process
\* exited with a failure status, and the call returned the error naming it.
C28_Witness ==
    /\ pc = "pipe"
    /\ op.pc = "done"
    /\ op.kind = "reads to eof"
    /\ Len(op.bytes) > PipeCapacity
    /\ op.got = op.bytes
    /\ op.result = FailedWithStatus(1)

====
